---- MODULE Spec2Model ----
(***************************************************************************)
(* A model of the static type algebra (typing/ty.rs) and of the typing     *)
(* context (typing/ctx.rs) of starlark-rust.                               *)
(*                                                                         *)
(* A Ty value is the pair <<variant, payload>>:                            *)
(*   <<"Never", <<>>>>            Ty::Never                                *)
(*   <<"Any", <<>>>>              Ty::Any                                  *)
(*   <<"Union", <<t1, ..., tn>>>> Ty::Union(TyUnion(vec))                  *)
(*   <<"Name", s>>                Ty::Name(TyName(s))                      *)
(*   <<"Iter", t>>                Ty::Iter(Box(t))                         *)
(*   <<"List", t>>                Ty::List(Box(t))                         *)
(*   <<"Tuple", <<t1, ..., tn>>>> Ty::Tuple(vec)                           *)
(*   <<"Dict", <<k, v>>>>         Ty::Dict(Box((k, v)))                    *)
(*   <<"Custom", <<type_name, data>>>>  Ty::Custom(TyCustom(Box<dyn ..>))  *)
(* A custom type carries the name of its implementation type (what         *)
(* cmp_token returns beside the OrdAny) and the implementation's data:     *)
(*   TyStruct          data = <<fields, extra>>, fields a key-sorted       *)
(*                     sequence of <<key, Ty>>                             *)
(*   TyCustomFunction  data = <<type_attr, result>>                        *)
(***************************************************************************)
EXTENDS Integers, Sequences, FiniteSets

VARIABLES
    xs,              \* the Vec<Ty> under construction (a stack of Ty values)
    op,              \* the last type-algebra operation: its name, arguments, result
    oracle,          \* which TypingOracle the context borrows
    types,           \* TypingContext.types: binding id -> Ty
    errors,          \* TypingContext.errors
    approximoations, \* TypingContext.approximoations
    call             \* the last context operation: its name, arguments, result

vars == <<xs, op, oracle, types, errors, approximoations, call>>

(***************************************************************************)
(* Bounds of the model.                                                    *)
(***************************************************************************)
MaxLen == 3      \* longest Vec<Ty> built on the stack
MaxSize == 6     \* most Ty nodes on the stack when a type is pushed

(***************************************************************************)
(* Ordering of the primitive values.                                       *)
(***************************************************************************)
\* The strings of the model in the byte order str::cmp gives them.
StrOrder ==
    << "", "NoneType", "a", "bool", "float", "function", "int",
       "starlark::typing::function::TyCustomFunction",
       "starlark::typing::structs::TyStruct",
       "string", "struct", "tuple" >>

\* The variants of Ty in declaration order, which is the order derive(Ord) gives them.
VariantOrder ==
    << "Never", "Any", "Union", "Name", "Iter", "List", "Tuple", "Dict", "Custom" >>

\* Only({e : v \in {d}}) is e with v bound to the value of d
Only(S) == CHOOSE v \in S : TRUE

IndexIn(seq, x) == CHOOSE i \in 1..Len(seq) : seq[i] = x

IntCmp(a, b) == IF a < b THEN -1 ELSE IF a > b THEN 1 ELSE 0

\* Ordering::then: c unless it is Equal, and d then
ThenCmp(c, d) == IF c # 0 THEN c ELSE d

StrCmp(a, b) == IntCmp(IndexIn(StrOrder, a), IndexIn(StrOrder, b))

BoolCmp(a, b) == IF a = b THEN 0 ELSE IF b THEN -1 ELSE 1

(***************************************************************************)
(* Constructors.                                                           *)
(***************************************************************************)
TyNever == <<"Never", <<>>>>
TyAny == <<"Any", <<>>>>
TyName(s) == <<"Name", s>>
TyIter(t) == <<"Iter", t>>
TyList(t) == <<"List", t>>
TyTuple(ts) == <<"Tuple", ts>>
TyDict(k, v) == <<"Dict", <<k, v>>>>
TyUnion(ts) == <<"Union", ts>>
TyCustom(type_name, data) == <<"Custom", <<type_name, data>>>>

StructTypeName == "starlark::typing::structs::TyStruct"
FunctionTypeName == "starlark::typing::function::TyCustomFunction"

TyStruct(fields, extra) == TyCustom(StructTypeName, <<fields, extra>>)
\* Param: <<mode, optional, ty>>, the mode being <<"PosOnly">>,
\* <<"PosOrName", name>>, <<"NameOnly", name>>, <<"Args">> or <<"Kwargs">>
ParamPosOnly(ty) == << <<"PosOnly">>, FALSE, ty >>
ParamArgs(ty) == << <<"Args">>, TRUE, ty >>
ParamKwargs(ty) == << <<"Kwargs">>, TRUE, ty >>

\* TyFunction { type_attr, params, result } behind TyCustomFunction
TyFunction(type_attr, params, result) ==
    TyCustom(FunctionTypeName, <<type_attr, params, result>>)

Variant(t) == t[1]
Payload(t) == t[2]

TyInt == TyName("int")
TyBool == TyName("bool")
TyString == TyName("string")
TyFloat == TyName("float")
TyNone == TyName("NoneType")

is_any(t) == t = TyAny
is_never(t) == t = TyNever
is_list(t) == Variant(t) = "List"
is_name(t, name) == Variant(t) = "Name" /\ Payload(t) = name

\* Ty::name
TyOfName(name) ==
    CASE name = "list" -> TyList(TyAny)
      [] name = "dict" -> TyDict(TyAny, TyAny)
      [] name = "function" ->
            TyFunction("", <<ParamArgs(TyAny), ParamKwargs(TyAny)>>, TyAny)
      [] name = "struct" -> TyStruct(<<>>, TRUE)
      [] name = "never" -> TyNever
      [] OTHER -> TyName(name)

\* Ty::as_name; "" stands for None (no Ty::Name is the empty string: the
\* empty annotation is TyAny)
as_name(t) ==
    CASE Variant(t) = "Name" -> Payload(t)
      [] Variant(t) = "List" -> "list"
      [] Variant(t) = "Tuple" -> "tuple"
      [] Variant(t) = "Dict" -> "dict"
      [] Variant(t) = "Never" -> "never"
      [] Variant(t) = "Custom" ->
            IF Payload(t)[1] = StructTypeName THEN "struct" ELSE "function"
      [] OTHER -> ""

(***************************************************************************)
(* derive(Ord) on Ty, and Ord for TyCustom.                                *)
(***************************************************************************)
RECURSIVE TyCmp(_, _)
RECURSIVE VecCmp(_, _)
RECURSIVE FieldsCmp(_, _)
RECURSIVE ParamsCmp(_, _)
RECURSIVE CustomCmp(_, _)

\* Vec<Ty>::cmp: lexicographic, a proper prefix is smaller
VecCmp(a, b) ==
    IF a = <<>> THEN (IF b = <<>> THEN 0 ELSE -1)
    ELSE IF b = <<>> THEN 1
    ELSE ThenCmp(TyCmp(Head(a), Head(b)), VecCmp(Tail(a), Tail(b)))

\* SortedMap<String, Ty>::cmp: lexicographic on the (key, value) entries
FieldsCmp(a, b) ==
    IF a = <<>> THEN (IF b = <<>> THEN 0 ELSE -1)
    ELSE IF b = <<>> THEN 1
    ELSE ThenCmp(StrCmp(Head(a)[1], Head(b)[1]),
                 ThenCmp(TyCmp(Head(a)[2], Head(b)[2]),
                         FieldsCmp(Tail(a), Tail(b))))

ParamModeOrder == <<"PosOnly", "PosOrName", "NameOnly", "Args", "Kwargs">>

\* the derived Ord of ParamMode
ParamModeCmp(a, b) ==
    ThenCmp(IntCmp(IndexIn(ParamModeOrder, a[1]), IndexIn(ParamModeOrder, b[1])),
            IF Len(a) = 1 THEN 0 ELSE StrCmp(a[2], b[2]))

\* Vec<Param>::cmp with the derived Ord of Param (mode, optional, ty)
ParamsCmp(a, b) ==
    IF a = <<>> THEN (IF b = <<>> THEN 0 ELSE -1)
    ELSE IF b = <<>> THEN 1
    ELSE ThenCmp(ParamModeCmp(Head(a)[1], Head(b)[1]),
                 ThenCmp(BoolCmp(Head(a)[2], Head(b)[2]),
                         ThenCmp(TyCmp(Head(a)[3], Head(b)[3]),
                                 ParamsCmp(Tail(a), Tail(b)))))

\* The comparison of two custom types of one implementation type (OrdAny::cmp,
\* which is the implementation's derived Ord).
SameTypeCmp(a, b) ==
    IF a[1] = StructTypeName
    THEN ThenCmp(FieldsCmp(a[2][1], b[2][1]), BoolCmp(a[2][2], b[2][2]))
    ELSE ThenCmp(StrCmp(a[2][1], b[2][1]),
                 ThenCmp(ParamsCmp(a[2][2], b[2][2]), TyCmp(a[2][3], b[2][3])))

\* impl PartialEq for TyCustom: the eq tokens are of one type and equal
CustomEq(a, b) == a[1] = b[1] /\ a[2] = b[2]

\* an order of the custom types that looks at the implementation type alone
CustomCmpNamesOnly(a, b) == StrCmp(a[1], b[1])
\* impl Ord for TyCustom
CustomCmp(a, b) ==
    IF a[1] # b[1] /\ StrCmp(a[1], b[1]) # 0
    THEN StrCmp(a[1], b[1])
    ELSE SameTypeCmp(a, b)

TyCmp(a, b) ==
    IF Variant(a) # Variant(b)
    THEN IntCmp(IndexIn(VariantOrder, Variant(a)), IndexIn(VariantOrder, Variant(b)))
    ELSE CASE Variant(a) \in {"Never", "Any"} -> 0
           [] Variant(a) \in {"Union", "Tuple"} -> VecCmp(Payload(a), Payload(b))
           [] Variant(a) = "Name" -> StrCmp(Payload(a), Payload(b))
           [] Variant(a) \in {"Iter", "List"} -> TyCmp(Payload(a), Payload(b))
           [] Variant(a) = "Dict" -> VecCmp(Payload(a), Payload(b))
           [] Variant(a) = "Custom" -> CustomCmp(Payload(a), Payload(b))

TyLess(a, b) == TyCmp(a, b) < 0

(***************************************************************************)
(* Ty::unions and what it calls.                                           *)
(***************************************************************************)
\* Ty::into_iter_union (and Ty::iter_union, which borrows the same elements)
into_iter_union(t) ==
    CASE Variant(t) = "Union" -> Payload(t)
      [] Variant(t) = "Never" -> <<>>
      [] OTHER -> <<t>>

iter_union(t) == into_iter_union(t)

RECURSIVE FlatMapUnion(_)
\* xs.into_iter().flat_map(|x| x.into_iter_union()).collect()
FlatMapUnion(v) ==
    IF v = <<>> THEN <<>> ELSE into_iter_union(Head(v)) \o FlatMapUnion(Tail(v))

RECURSIVE InsertSorted(_, _)
\* one step of the stable sort: x goes after every element not greater than it
InsertSorted(v, x) ==
    IF v = <<>> THEN <<x>>
    ELSE IF TyCmp(x, Head(v)) < 0 THEN <<x>> \o v
    ELSE <<Head(v)>> \o InsertSorted(Tail(v), x)

\* a sort that leaves the vector as it was given
SortVecOmitted(v) == v

RECURSIVE SortVec(_)
\* xs.sort()
SortVec(v) ==
    IF v = <<>> THEN <<>>
    ELSE InsertSorted(SortVec(SubSeq(v, 1, Len(v) - 1)), v[Len(v)])

RECURSIVE DedupVec(_)
\* xs.dedup(): drops an element equal to the one before it
DedupVec(v) ==
    IF Len(v) < 2 THEN v
    ELSE IF v[1] = v[2] THEN DedupVec(Tail(v))
    ELSE <<v[1]>> \o DedupVec(Tail(v))

\* xs.retain(|x| x != &Ty::Never)
RetainNotNever(v) == SelectSeq(v, LAMBDA x : x # TyNever)

\* xs.contains(&Ty::Any)
Contains(v, x) == \E i \in 1..Len(v) : v[i] = x

RECURSIVE Unions(_)
RECURSIVE MergeAdjacentLoop(_, _, _)
RECURSIVE MergeFields(_, _)

\* Ty::union2
Union2(a, b) == Unions(<<a, b>>)

\* the field-wise union of two structs with the same keys
MergeFields(fa, fb) ==
    IF fa = <<>> THEN <<>>
    ELSE << <<Head(fa)[1], Union2(Head(fa)[2], Head(fb)[2])>> >>
         \o MergeFields(Tail(fa), Tail(fb))

FieldKeys(f) == [i \in 1..Len(f) |-> f[i][1]]

\* TyStruct::union2: <<"Left", merged>> or <<"Right", a, b>>
StructUnion2(a, b) ==
    IF a = b THEN <<"Left", a>>
    ELSE IF a[2] = b[2] /\ FieldKeys(a[1]) = FieldKeys(b[1])
    THEN <<"Left", <<MergeFields(a[1], b[1]), a[2]>> >>
    ELSE <<"Right", a, b>>

\* TyCustomFunction::union2
FunctionUnion2(a, b) == IF a = b THEN <<"Left", a>> ELSE <<"Right", a, b>>

\* TyCustom::union2 through union2_dyn: only two custom types of one
\* implementation type reach the implementation's hook
CustomUnion2(x, y) ==
    IF x[1] = y[1]
    THEN Only({IF r[1] = "Left"
               THEN <<"Left", <<x[1], r[2]>> >>
               ELSE <<"Right", <<x[1], r[2]>>, <<y[1], r[3]>> >> :
                    r \in {IF x[1] = StructTypeName
                           THEN StructUnion2(x[2], y[2])
                           ELSE FunctionUnion2(x[2], y[2])}})
    ELSE <<"Right", x, y>>

\* a closure that has lost the arm for two lists
MergeClosureNoList(x, y) ==
    CASE Variant(x) = "Dict" /\ Variant(y) = "Dict" ->
            <<"Left", TyDict(Union2(Payload(x)[1], Payload(y)[1]),
                             Union2(Payload(x)[2], Payload(y)[2]))>>
      [] Variant(x) = "Custom" /\ Variant(y) = "Custom" ->
            Only({IF r[1] = "Left"
                  THEN <<"Left", <<"Custom", r[2]>> >>
                  ELSE <<"Right", <<"Custom", r[2]>>, <<"Custom", r[3]>> >> :
                        r \in {CustomUnion2(Payload(x), Payload(y))}})
      [] OTHER -> <<"Right", x, y>>

\* the closure Ty::unions hands to merge_adjacent
MergeClosure(x, y) ==
    CASE Variant(x) = "List" /\ Variant(y) = "List" ->
            <<"Left", TyList(Union2(Payload(x), Payload(y)))>>
      [] Variant(x) = "Dict" /\ Variant(y) = "Dict" ->
            <<"Left", TyDict(Union2(Payload(x)[1], Payload(y)[1]),
                             Union2(Payload(x)[2], Payload(y)[2]))>>
      [] Variant(x) = "Custom" /\ Variant(y) = "Custom" ->
            Only({IF r[1] = "Left"
                  THEN <<"Left", <<"Custom", r[2]>> >>
                  ELSE <<"Right", <<"Custom", r[2]>>, <<"Custom", r[3]>> >> :
                        r \in {CustomUnion2(Payload(x), Payload(y))}})
      [] OTHER -> <<"Right", x, y>>

\* the loop of merge_adjacent: last is <<>> for None and <<l>> for Some(l)
MergeAdjacentLoop(v, last, res) ==
    IF v = <<>> THEN res \o last
    ELSE IF last = <<>> THEN MergeAdjacentLoop(Tail(v), <<Head(v)>>, res)
    ELSE Only({IF r[1] = "Left"
               THEN MergeAdjacentLoop(Tail(v), <<r[2]>>, res)
               ELSE MergeAdjacentLoop(Tail(v), <<r[3]>>, Append(res, r[2])) :
                    r \in {MergeClosure(last[1], Head(v))}})

\* merge_adjacent
merge_adjacent(v) == MergeAdjacentLoop(v, <<>>, <<>>)

\* Ty::unions
Unions(v) ==
    Only({IF Contains(kept, TyAny) THEN TyAny
          ELSE Only({IF merged = <<>> THEN TyNever
                     ELSE IF Len(merged) = 1 THEN merged[1]
                     ELSE TyUnion(merged) :
                        merged \in {merge_adjacent(kept)}}) :
                kept \in {RetainNotNever(DedupVec(SortVec(FlatMapUnion(v))))}})

(***************************************************************************)
(* Ty::indexed.                                                            *)
(***************************************************************************)
RECURSIVE Indexed(_, _)
RECURSIVE IndexedAll(_, _)

\* xs.0.into_map(|x| x.indexed(i))
IndexedAll(v, i) ==
    IF v = <<>> THEN <<>> ELSE <<Indexed(Head(v), i)>> \o IndexedAll(Tail(v), i)

\* an indexed that gives Any, not Never, for a tuple index out of range
IndexedOutOfRangeAny(t, i) ==
    CASE Variant(t) = "Any" -> TyAny
      [] Variant(t) = "Never" -> TyNever
      [] Variant(t) = "List" -> Payload(t)
      [] Variant(t) = "Tuple" ->
            IF i < Len(Payload(t)) THEN Payload(t)[i + 1] ELSE TyAny
      [] Variant(t) = "Union" -> Unions(IndexedAll(Payload(t), i))
      [] OTHER -> TyAny

\* Ty::indexed; i is the zero-based index of the source
Indexed(t, i) ==
    CASE Variant(t) = "Any" -> TyAny
      [] Variant(t) = "Never" -> TyNever
      [] Variant(t) = "List" -> Payload(t)
      [] Variant(t) = "Tuple" ->
            IF i < Len(Payload(t)) THEN Payload(t)[i + 1] ELSE TyNever
      [] Variant(t) = "Union" -> Unions(IndexedAll(Payload(t), i))
      [] OTHER -> TyAny

(***************************************************************************)
(* The oracle (TypingOracleCtx): which attributes a type has and which     *)
(* names are subtypes.  Three oracles stand for the pluggable service:     *)
(*   "unknown"        knows nothing: every attribute query answers None    *)
(*   "no_attributes"  every attribute query answers Some(Err(()))          *)
(*   "standard"       lists, dicts and tuples iterate, "string" has        *)
(*                    removeprefix, "int" has the arithmetic operators,    *)
(*                    structs answer from their fields, other names are    *)
(*                    not known (None); "bool" is a subtype of "int"       *)
(* An answer is <<"None">>, <<"Err">> or <<"Ok", ty>>.                     *)
(***************************************************************************)
Oracles == {"unknown", "no_attributes", "standard"}

Attrs == {"Iter", "BinOp(Add)", "removeprefix", "a"}

\* the attributes that are no TypingAttr::Regular: Iter, Index, Slice and the
\* operators
OperatorAttrs ==
    {"Iter", "Index", "Slice", "UnOp(Minus)", "UnOp(Plus)", "UnOp(BitNot)",
     "BinOp(In)", "BinOp(Less)", "BinOp(Sub)", "BinOp(Add)", "BinOp(Mul)",
     "BinOp(Percent)", "BinOp(Div)", "BinOp(FloorDiv)", "BinOp(BitAnd)",
     "BinOp(BitOr)", "BinOp(BitXor)", "BinOp(LeftShift)", "BinOp(RightShift)"}

\* TypingOracle::subtype
OracleSubtype(o, x, y) == o = "standard" /\ x = "bool" /\ y = "int"

\* TyStruct::attribute on a regular attribute
StructAttribute(data, attr) ==
    IF attr \in OperatorAttrs THEN <<"Err">>
    ELSE Only({IF hit # <<>> THEN <<"Ok", hit[1][2]>>
               ELSE IF data[2] THEN <<"Ok", TyAny>>
               ELSE <<"Err">> :
                    hit \in {SelectSeq(data[1], LAMBDA f : f[1] = attr)}})

\* TyCustomFunction::attribute: a function that has a type attribute has the
\* string attribute type, and no other attribute
FunctionAttribute(data, attr) ==
    IF attr = "type" /\ data[1] # "" THEN <<"Ok", TyString>> ELSE <<"Err">>

\* TypingOracle::attribute
OracleAttribute(o, t, attr) ==
    CASE o = "unknown" -> <<"None">>
      [] o = "no_attributes" -> <<"Err">>
      [] OTHER ->
            CASE Variant(t) = "List" /\ attr = "Iter" -> <<"Ok", Payload(t)>>
              [] Variant(t) = "Dict" /\ attr = "Iter" -> <<"Ok", Payload(t)[1]>>
              [] Variant(t) = "Tuple" /\ attr = "Iter" -> <<"Ok", Unions(Payload(t))>>
              [] Variant(t) \in {"List", "Dict", "Tuple"} -> <<"Err">>
              [] Variant(t) = "Custom" /\ Payload(t)[1] = StructTypeName ->
                    StructAttribute(Payload(t)[2], attr)
              [] Variant(t) = "Custom" -> FunctionAttribute(Payload(t)[2], attr)
              [] t = TyString /\ attr = "removeprefix" ->
                    <<"Ok", TyFunction("", <<ParamPosOnly(TyString)>>, TyString)>>
              [] t = TyInt /\ attr = "BinOp(Add)" ->
                    <<"Ok", TyFunction("", <<ParamPosOnly(TyInt)>>, TyInt)>>
              [] t \in {TyString, TyInt} -> <<"Err">>
              [] OTHER -> <<"None">>

(***************************************************************************)
(* Ty::intersects.                                                         *)
(***************************************************************************)
RECURSIVE Intersects(_, _, _)

\* TyCustom::intersects
CustomIntersects(x, y) ==
    IF as_name(<<"Custom", x>>) = "function" /\ as_name(<<"Custom", y>>) = "function"
    THEN TRUE
    ELSE x[1] = y[1]

\* names that are equal in one direction of the subtyping alone
equal_namesOneWay(o, x, y) == x = y \/ OracleSubtype(o, x, y)
\* the closure equal_names
equal_names(o, x, y) == x = y \/ OracleSubtype(o, x, y) \/ OracleSubtype(o, y, x)

\* the closure itered: oracle.attribute(ty, Iter)?.ok(), <<>> for None
itered(o, t) ==
    Only({IF r[1] = "Ok" THEN <<r[2]>> ELSE <<>> : r \in {OracleAttribute(o, t, "Iter")}})

\* the match on one pair of alternatives
IntersectsPair(x, y, o) ==
    CASE Variant(x) = "Name" /\ Variant(y) = "Name" ->
            equal_names(o, Payload(x), Payload(y))
      [] Variant(x) = "List" /\ Variant(y) = "List" ->
            Intersects(Payload(x), Payload(y), o)
      [] Variant(x) = "Dict" /\ Variant(y) = "Dict" ->
            /\ Intersects(Payload(x)[1], Payload(y)[1], o)
            /\ Intersects(Payload(x)[2], Payload(y)[2], o)
      [] \/ Variant(x) = "Tuple" /\ is_name(y, "tuple")
         \/ Variant(y) = "Tuple" /\ is_name(x, "tuple") -> TRUE
      [] /\ Variant(x) = "Tuple" /\ Variant(y) = "Tuple"
         /\ Len(Payload(x)) = Len(Payload(y)) ->
            \A i \in 1..Len(Payload(x)) : Intersects(Payload(x)[i], Payload(y)[i], o)
      [] Variant(x) = "Iter" /\ Variant(y) = "Iter" ->
            Intersects(Payload(x), Payload(y), o)
      [] Variant(x) = "Iter" ->
            itered(o, y) # <<>> /\ Intersects(Payload(x), itered(o, y)[1], o)
      [] Variant(y) = "Iter" ->
            itered(o, x) # <<>> /\ Intersects(Payload(y), itered(o, x)[1], o)
      [] Variant(x) = "Custom" /\ Variant(y) = "Custom" ->
            CustomIntersects(Payload(x), Payload(y))
      [] as_name(x) = "function" /\ as_name(y) = "function" -> TRUE
      [] OTHER -> x = y

\* an intersects whose early return forgets that the other side may be Never
IntersectsOtherNeverForgotten(a, b, o) ==
    IF is_any(a) \/ is_never(a) \/ is_any(b) THEN TRUE
    ELSE \E i \in 1..Len(iter_union(a)) : \E j \in 1..Len(iter_union(b)) :
            IntersectsPair(iter_union(a)[i], iter_union(b)[j], o)

\* Ty::intersects
Intersects(a, b, o) ==
    IF is_any(a) \/ is_never(a) \/ is_any(b) \/ is_never(b) THEN TRUE
    ELSE \E i \in 1..Len(iter_union(a)) : \E j \in 1..Len(iter_union(b)) :
            IntersectsPair(iter_union(a)[i], iter_union(b)[j], o)

(***************************************************************************)
(* The type-algebra machine: a stack of Ty values that the constructors    *)
(* and operations of Ty act on, as a checking pass does when it builds     *)
(* types bottom-up.                                                        *)
(***************************************************************************)
RECURSIVE Size(_)
RECURSIVE SizeVec(_)

\* the number of Ty nodes of a type
Size(t) ==
    CASE Variant(t) \in {"Never", "Any", "Name"} -> 1
      [] Variant(t) \in {"Iter", "List"} -> 1 + Size(Payload(t))
      [] Variant(t) \in {"Union", "Tuple", "Dict"} -> 1 + SizeVec(Payload(t))
      [] Variant(t) = "Custom" ->
            IF Payload(t)[1] = StructTypeName
            THEN 1 + SizeVec([i \in 1..Len(Payload(t)[2][1]) |-> Payload(t)[2][1][i][2]])
            ELSE 1 + Size(Payload(t)[2][3])

SizeVec(v) == IF v = <<>> THEN 0 ELSE Size(Head(v)) + SizeVec(Tail(v))

\* the types a pass creates with the constructors of Ty (Ty::Never, Ty::Any,
\* Ty::int, Ty::string, Ty::list, Ty::dict, Ty::Tuple, Ty::tuple2, Ty::custom
\* on a TyStruct, Ty::name("function"))
Elems ==
    { TyNever, TyAny, TyInt, TyString,
      TyList(TyInt), TyList(TyString),
      TyDict(TyInt, TyInt), TyDict(TyString, TyAny),
      TyTuple(<<TyInt>>), TyTuple(<<TyString, TyInt>>),
      TyStruct(<< <<"a", TyInt>> >>, FALSE),
      TyStruct(<< <<"a", TyInt>> >>, TRUE),
      TyStruct(<< <<"a", TyString>> >>, TRUE),
      TyOfName("function") }

NoOp == [name |-> "none", arg |-> <<>>, res |-> TyNever]

Top(n) == SubSeq(xs, Len(xs) - n + 1, Len(xs))
Below(n) == SubSeq(xs, 1, Len(xs) - n)

\* a type is created and pushed
Push(t) ==
    /\ Len(xs) < MaxLen
    /\ SizeVec(xs) + Size(t) <= MaxSize
    /\ xs' = Append(xs, t)
    /\ op' = NoOp

\* Ty::unions on the last n types
DoUnions(n) ==
    /\ Len(xs) >= n
    /\ n = 0 => Len(xs) < MaxLen
    /\ \E r \in {Unions(Top(n))} :
        /\ xs' = Below(n) \o <<r>>
        /\ op' = [name |-> "unions", arg |-> Top(n), res |-> r]

\* Ty::indexed on the last type
DoIndexed(i) ==
    /\ Len(xs) >= 1
    /\ \E r \in {Indexed(xs[Len(xs)], i)} :
        /\ xs' = Below(1) \o <<r>>
        /\ op' = [name |-> "indexed", arg |-> <<xs[Len(xs)], i>>, res |-> r]

\* a.intersects(b, oracle) on a stack that holds the two types: both are used up
DoIntersects(o) ==
    /\ Len(xs) = 2
    /\ xs' = <<>>
    /\ op' = [name |-> "intersects", arg |-> <<xs[1], xs[2], o>>,
              res |-> Intersects(xs[1], xs[2], o)]

CtxUnchanged == UNCHANGED <<oracle, types, errors, approximoations, call>>

Init ==
    /\ xs = <<>>
    /\ op = NoOp
    /\ oracle = "none"
    /\ types = <<>>
    /\ errors = <<>>
    /\ approximoations = <<>>
    /\ call = NoOp

Next ==
    \/ \E t \in Elems : Push(t) /\ CtxUnchanged
    \/ \E n \in 0..MaxLen : DoUnions(n) /\ CtxUnchanged
    \/ \E i \in 0..1 : DoIndexed(i) /\ CtxUnchanged
    \/ \E o \in Oracles : DoIntersects(o) /\ CtxUnchanged

Spec == Init /\ [][Next]_vars

(***************************************************************************)
(* Ty::attribute.  The context is borrowed immutably and only appended to, *)
(* so the call is modelled by its result and the approximations it         *)
(* appends, in order: [res |-> <<"Ok", ty>> or <<"Err">>, apps |-> ...].   *)
(***************************************************************************)
\* Approximation::new: the message is Debug of "{self}.{attr}", kept as the pair
Approximation(category, message) == [category |-> category, message |-> message]

RECURSIVE Attribute(_, _, _)
RECURSIVE AttributeAll(_, _, _)

\* a collect that gives up at the first alternative without the attribute
AttributeAllStopAtErr(v, attr, o) ==
    IF v = <<>> THEN [oks |-> <<>>, apps |-> <<>>]
    ELSE Only({IF h.res[1] = "Ok"
               THEN [oks |-> <<h.res[2]>> \o r.oks, apps |-> h.apps \o r.apps]
               ELSE [oks |-> <<>>, apps |-> h.apps] :
                    h \in {Attribute(Head(v), attr, o)},
                    r \in {AttributeAll(Tail(v), attr, o)}})

\* alternatives().iter().flat_map(|x| x.attribute(attr, ctx)).collect(): the Ok
\* results in order, beside the approximations the calls appended
AttributeAll(v, attr, o) ==
    IF v = <<>> THEN [oks |-> <<>>, apps |-> <<>>]
    ELSE Only({[oks |-> (IF h.res[1] = "Ok" THEN <<h.res[2]>> ELSE <<>>) \o r.oks,
                apps |-> h.apps \o r.apps] :
                    h \in {Attribute(Head(v), attr, o)},
                    r \in {AttributeAll(Tail(v), attr, o)}})

\* an attribute that passes the oracle's "don't know" on as a failure
AttributeNoneIsErr(t, attr, o) ==
    CASE Variant(t) = "Any" -> [res |-> <<"Ok", TyAny>>, apps |-> <<>>]
      [] Variant(t) = "Never" -> [res |-> <<"Ok", TyNever>>, apps |-> <<>>]
      [] Variant(t) = "Union" ->
            Only({IF rs.oks = <<>>
                  THEN [res |-> <<"Err">>, apps |-> rs.apps]
                  ELSE [res |-> <<"Ok", Unions(rs.oks)>>, apps |-> rs.apps] :
                        rs \in {AttributeAll(Payload(t), attr, o)}})
      [] OTHER ->
            Only({IF r[1] = "None"
                  THEN [res |-> <<"Err">>, apps |-> <<>>]
                  ELSE [res |-> r, apps |-> <<>>] :
                        r \in {OracleAttribute(o, t, attr)}})

\* Ty::attribute
Attribute(t, attr, o) ==
    CASE Variant(t) = "Any" -> [res |-> <<"Ok", TyAny>>, apps |-> <<>>]
      [] Variant(t) = "Never" -> [res |-> <<"Ok", TyNever>>, apps |-> <<>>]
      [] Variant(t) = "Union" ->
            Only({IF rs.oks = <<>>
                  THEN [res |-> <<"Err">>, apps |-> rs.apps]
                  ELSE [res |-> <<"Ok", Unions(rs.oks)>>, apps |-> rs.apps] :
                        rs \in {AttributeAll(Payload(t), attr, o)}})
      [] OTHER ->
            Only({IF r[1] = "None"
                  THEN [res |-> <<"Ok", TyAny>>,
                        apps |-> <<Approximation("oracle.attribute", <<t, attr>>)>>]
                  ELSE [res |-> r, apps |-> <<>>] :
                        r \in {OracleAttribute(o, t, attr)}})

(***************************************************************************)
(* The oracle side of the context (TypingOracleCtx, OracleDocs): what the  *)
(* checker delegates to.  An argument is <<"Pos", ty>>, <<"Name", n, ty>>,  *)
(* <<"Args", ty>> or <<"Kwargs", ty>>.                                      *)
(***************************************************************************)
\* TypingOracleCtx::mk_error: the error beside the span it is reported at
mk_error(span, err) == [span |-> span, err |-> err]

\* TypingOracleCtx::validate_type, TRUE for Ok(())
OracleValidateType(o, got, require) == Intersects(got, require, o)

\* Param::allows_pos
allows_pos(param) == param[1][1] \in {"PosOnly", "PosOrName", "Args"}

\* Param::name, "" for the modes without one
param_name(param) == IF Len(param[1]) = 2 THEN param[1][2] ELSE ""

RECURSIVE PosLoop(_, _)
\* the loop that places one positional argument: <<found_index, param_pos>>,
\* or <<>> when the parameters ran out
PosLoop(params, pos) ==
    IF pos > Len(params) THEN <<>>
    ELSE IF allows_pos(params[pos])
    THEN <<pos, IF params[pos][1][1] = "Args" THEN pos ELSE pos + 1>>
    ELSE PosLoop(params, pos + 1)

\* the first parameter a named argument goes to, 0 when there is none
NamedIndex(params, name) ==
    Only({IF hits = {} THEN 0 ELSE CHOOSE i \in hits : \A j \in hits : i <= j :
            hits \in {{i \in 1..Len(params) :
                        param_name(params[i]) = name \/ params[i][1][1] = "Kwargs"}}})

RECURSIVE ArgsLoop(_, _, _, _, _)
\* the loop over the arguments: <<"Err">>, or <<"Ok", param_args, seen_vargs>>
ArgsLoop(params, args, pos, pargs, seen) ==
    IF args = <<>> THEN <<"Ok", pargs, seen>>
    ELSE CASE Head(args)[1] = "Pos" ->
                Only({IF f = <<>> THEN <<"Err">>
                      ELSE ArgsLoop(params, Tail(args), f[2],
                                [pargs EXCEPT ![f[1]] = Append(@, Head(args)[2])], seen) :
                            f \in {PosLoop(params, pos)}})
           [] Head(args)[1] = "Name" ->
                Only({IF i = 0 THEN <<"Err">>
                      ELSE ArgsLoop(params, Tail(args), pos,
                                [pargs EXCEPT ![i] = Append(@, Head(args)[3])], seen) :
                            i \in {NamedIndex(params, Head(args)[2])}})
           [] Head(args)[1] = "Args" ->
                ArgsLoop(params, Tail(args), Len(params) + 1, pargs, TRUE)
           [] OTHER -> ArgsLoop(params, Tail(args), pos, pargs, TRUE)

\* TypingOracleCtx::validate_args, TRUE for Ok(())
OracleValidateArgs(o, params, args) ==
    \E r \in {ArgsLoop(params, args, 1, [i \in 1..Len(params) |-> <<>>], FALSE)} :
        /\ r[1] = "Ok"
        /\ \A i \in 1..Len(params) :
            IF r[2][i] = <<>>
            THEN r[3] \/ params[i][2]
            ELSE \A k \in 1..Len(r[2][i]) :
                    OracleValidateType(o, r[2][i][k], params[i][3])

RECURSIVE OracleValidateCall(_, _, _)
RECURSIVE ValidateCallAll(_, _, _)

\* the alternatives of a union the call is valid on, as their result types
ValidateCallAll(o, v, args) ==
    IF v = <<>> THEN <<>>
    ELSE Only({IF h[1] = "Ok" THEN <<h[2]>> ELSE <<>> :
                    h \in {OracleValidateCall(o, Head(v), args)}})
         \o ValidateCallAll(o, Tail(v), args)

\* TypingOracleCtx::validate_call: <<"Ok", ty>> or <<"Err", error>>
OracleValidateCall(o, fun, args) ==
    CASE Variant(fun) = "Never" -> <<"Ok", TyNever>>
      [] Variant(fun) \in {"Any", "Name", "Iter"} -> <<"Ok", TyAny>>
      [] Variant(fun) \in {"List", "Dict", "Tuple"} ->
            <<"Err", <<"CallToNonCallable", fun>> >>
      [] Variant(fun) = "Custom" ->
            IF Payload(fun)[1] = FunctionTypeName
            THEN IF OracleValidateArgs(o, Payload(fun)[2][2], args)
                 THEN <<"Ok", Payload(fun)[2][3]>>
                 ELSE <<"Err", <<"CallArgumentsIncompatible", fun>> >>
            ELSE <<"Err", <<"CallToNonCallable", fun>> >>
      [] Variant(fun) = "Union" ->
            Only({IF oks = <<>>
                  THEN <<"Err", <<"CallArgumentsIncompatible", fun>> >>
                  ELSE <<"Ok", Unions(oks)>> :
                        oks \in {ValidateCallAll(o, Payload(fun), args)}})

\* OracleDocs::builtin on the documentation of the globals: <<"Ok", ty>> or <<"Err">>
\* The tests give the types of hash, any and fail; of int, str and list they give
\* only that each is a function that has a type attribute, so these take any
\* arguments here.
OracleBuiltin(name) ==
    CASE name = "hash" -> <<"Ok", TyFunction("", <<ParamPosOnly(TyString)>>, TyInt)>>
      [] name = "any" -> <<"Ok", TyFunction("", <<ParamPosOnly(TyIter(TyAny))>>, TyBool)>>
      [] name = "fail" -> <<"Ok", TyFunction("", <<ParamArgs(TyAny)>>, TyNever)>>
      [] name = "int" ->
            <<"Ok", TyFunction("int", <<ParamArgs(TyAny), ParamKwargs(TyAny)>>, TyInt)>>
      [] name = "str" ->
            <<"Ok", TyFunction("string", <<ParamArgs(TyAny), ParamKwargs(TyAny)>>,
                               TyString)>>
      [] name = "list" ->
            <<"Ok", TyFunction("list", <<ParamArgs(TyAny), ParamKwargs(TyAny)>>,
                               TyList(TyAny))>>
      [] OTHER -> <<"Err">>

(***************************************************************************)
(* TypingContext.  The context is only appended to while an operation      *)
(* runs, so an operation is modelled by its value and the errors and        *)
(* approximations it appends, in order: [ty, errs, apps].  A span is the    *)
(* path of the node from the root of the tree that is checked.              *)
(***************************************************************************)
Outcome(ty, errs, apps) == [ty |-> ty, errs |-> errs, apps |-> apps]

\* b after a: the value of b, the diagnostics of a then those of b
Then(a, b) ==
    Only({Outcome(s.ty, r.errs \o s.errs, r.apps \o s.apps) : r \in {a}, s \in {b}})

\* TypingContext::add_error
add_error(span, err) == Outcome(TyNever, <<mk_error(span, err)>>, <<>>)

\* TypingContext::approximation
approximation(category, message) ==
    Outcome(TyAny, <<>>, <<Approximation(category, message)>>)

\* a validate_call that gives Any, not Never, to a call the oracle rejects
validate_callErrIsAny(o, fun, args, span) ==
    Only({IF r[1] = "Ok" THEN Outcome(r[2], <<>>, <<>>)
          ELSE Outcome(TyAny, <<mk_error(span, r[2])>>, <<>>) :
                r \in {OracleValidateCall(o, fun, args)}})

\* TypingContext::validate_call
validate_call(o, fun, args, span) ==
    Only({IF r[1] = "Ok" THEN Outcome(r[2], <<>>, <<>>)
          ELSE Outcome(TyNever, <<mk_error(span, r[2])>>, <<>>) :
                r \in {OracleValidateCall(o, fun, args)}})

\* TypingContext::validate_type: it has no value, ty is a placeholder
validate_type(o, got, require, span) ==
    IF OracleValidateType(o, got, require) THEN Outcome(TyAny, <<>>, <<>>)
    ELSE Outcome(TyAny, <<mk_error(span, <<"IncompatibleType", got, require>>)>>, <<>>)

\* TypingContext::builtin
builtin(name, span) ==
    Only({IF r[1] = "Ok" THEN Outcome(r[2], <<>>, <<>>)
          ELSE add_error(span, <<"UnknownBuiltin", name>>) :
                r \in {OracleBuiltin(name)}})

\* TypingContext::expression_attribute
expression_attribute(o, ty, attr, span) ==
    Only({IF r.res[1] = "Ok" THEN Outcome(r.res[2], <<>>, r.apps)
          ELSE Then(Outcome(TyNever, <<>>, r.apps),
                    add_error(span, <<"AttributeNotAvailable", ty, attr>>)) :
                r \in {Attribute(ty, attr, o)}})

\* TypingContext::from_iterated
from_iterated(o, ty, span) == expression_attribute(o, ty, "Iter", span)

\* an expression_primitive_ty that finds no operator on Never
expression_primitive_tyNeverRejected(o, name, arg0, args, span) ==
    IF is_never(arg0) THEN add_error(span, <<"AttributeNotAvailable", arg0, name>>)
    ELSE Only({Then(fun, validate_call(o, fun.ty,
                                       [i \in 1..Len(args) |-> <<"Pos", args[i]>>], span)) :
                fun \in {expression_attribute(o, arg0, name, span)}})

\* TypingContext::expression_primitive_ty
expression_primitive_ty(o, name, arg0, args, span) ==
    Only({Then(fun, validate_call(o, fun.ty,
                                  [i \in 1..Len(args) |-> <<"Pos", args[i]>>], span)) :
                fun \in {expression_attribute(o, arg0, name, span)}})

(***************************************************************************)
(* Expressions (ExprP), as tuples headed by the variant:                    *)
(*   <<"Tuple", xs>>  <<"Dot", a, attr>>  <<"Call", f, args>>               *)
(*   <<"ArrayIndirection", a, b>>  <<"Slice", x, start, stop, stride>>      *)
(*   <<"Identifier", name, resolved>>  <<"Lambda", body>>                   *)
(*   <<"Literal", kind>>  <<"Not", x>>  <<"Minus", x>>  <<"Plus", x>>       *)
(*   <<"BitNot", x>>  <<"Op", lhs, op, rhs>>  <<"If", c, t, f>>             *)
(*   <<"List", xs>>  <<"Dict", kvs>> (kvs a sequence of pairs <<k, v>>)     *)
(*   <<"ListComprehension", a, over, clauses>>                              *)
(*   <<"DictComprehension", k, v, over, clauses>>                           *)
(* An argument is <<"Positional", x>>, <<"Named", name, x>>, <<"Args", x>>  *)
(* or <<"KwArgs", x>>; a clause is <<"For", over>> or <<"If", x>>; an       *)
(* optional expression is <<>> or <<x>>; resolved is <<"Slot", i>>,         *)
(* <<"Global", <<>>>>, <<"Global", <<ty>>>> (a global value that publishes  *)
(* its type) or <<"None">>.  The children of a node are numbered in the     *)
(* order of its fields.                                                     *)
(***************************************************************************)
\* the attribute an arithmetic operator is dispatched to
BinOpAttr(bop) ==
    CASE bop = "Subtract" -> "BinOp(Sub)"
      [] bop = "Add" -> "BinOp(Add)"
      [] bop = "Multiply" -> "BinOp(Mul)"
      [] bop = "Percent" -> "BinOp(Percent)"
      [] bop = "Divide" -> "BinOp(Div)"
      [] bop = "FloorDivide" -> "BinOp(FloorDiv)"
      [] bop = "BitAnd" -> "BinOp(BitAnd)"
      [] bop = "BitOr" -> "BinOp(BitOr)"
      [] bop = "BitXor" -> "BinOp(BitXor)"
      [] bop = "LeftShift" -> "BinOp(LeftShift)"
      [] bop = "RightShift" -> "BinOp(RightShift)"

RECURSIVE expression_type(_, _, _, _)
RECURSIVE TypeEach(_, _, _, _, _)
RECURSIVE TypeArgs(_, _, _, _, _)
RECURSIVE TypeClauses(_, _, _, _, _)
RECURSIVE TypeSlice(_, _, _, _, _)

\* the outcome of a sequence, from that of its head and that of its tail
Cons(h, r) == Outcome(<<h.ty>> \o r.ty, h.errs \o r.errs, h.apps \o r.apps)

\* a with the value ty
Returning(a, ty) == Outcome(ty, a.errs, a.apps)

\* a map that stops typing at the first element that is Never
TypeEachFailFast(o, env, es, span, k) ==
    IF es = <<>> THEN Outcome(<<>>, <<>>, <<>>)
    ELSE Only({IF is_never(h.ty)
               THEN Cons(h, Outcome([i \in 1..(Len(es) - 1) |-> TyNever], <<>>, <<>>))
               ELSE Cons(h, TypeEach(o, env, Tail(es), span, k + 1)) :
                    h \in {expression_type(o, env, Head(es), Append(span, k))}})

\* xs.map(|x| self.expression_type(x)) on the children numbered from k: the
\* types in ty, the diagnostics in order
TypeEach(o, env, es, span, k) ==
    IF es = <<>> THEN Outcome(<<>>, <<>>, <<>>)
    ELSE Only({Cons(h, r) : h \in {expression_type(o, env, Head(es), Append(span, k))},
                            r \in {TypeEach(o, env, Tail(es), span, k + 1)}})

\* the closure over the arguments of a call, on one argument a whose
\* expression has the outcome t: the Arg value in ty
TypeArg(o, a, t, span) ==
    CASE a[1] = "Positional" -> Returning(t, <<"Pos", t.ty>>)
      [] a[1] = "Named" -> Returning(t, <<"Name", a[2], t.ty>>)
      [] a[1] = "Args" ->
            Returning(Then(t, from_iterated(o, t.ty, span)), <<"Args", t.ty>>)
      [] a[1] = "KwArgs" ->
            Returning(Then(t, validate_type(o, t.ty, TyDict(TyString, TyAny), span)),
                      <<"Kwargs", t.ty>>)

\* args.map(...) on the arguments of a call, numbered from k
TypeArgs(o, env, args, span, k) ==
    IF args = <<>> THEN Outcome(<<>>, <<>>, <<>>)
    ELSE Only({Cons(h, r) :
                h \in {Only({TypeArg(o, Head(args), t, Append(span, k)) :
                        t \in {expression_type(o, env,
                                    IF Head(args)[1] = "Named" THEN Head(args)[3]
                                    ELSE Head(args)[2], Append(span, k))}})},
                r \in {TypeArgs(o, env, Tail(args), span, k + 1)}})

\* the loop of check_comprehension over the clauses
TypeClauses(o, env, clauses, span, k) ==
    IF clauses = <<>> THEN Outcome(TyAny, <<>>, <<>>)
    ELSE Then(expression_type(o, env, Head(clauses)[2], Append(span, k)),
              TypeClauses(o, env, Tail(clauses), span, k + 1))

\* TypingContext::check_comprehension: it has no value, ty is a placeholder
check_comprehension(o, env, over, clauses, span, k) ==
    Then(expression_type(o, env, over, Append(span, k)),
         TypeClauses(o, env, clauses, span, k + 1))

\* the loop of ExprP::Slice over start, stop and stride, where they are given
TypeSlice(o, env, opts, span, k) ==
    IF opts = <<>> THEN Outcome(TyAny, <<>>, <<>>)
    ELSE IF Head(opts) = <<>> THEN TypeSlice(o, env, Tail(opts), span, k + 1)
    ELSE Then(Only({Then(t, validate_type(o, t.ty, TyInt, Append(span, k))) :
                    t \in {expression_type(o, env, Head(opts)[1], Append(span, k))}}),
              TypeSlice(o, env, Tail(opts), span, k + 1))

\* TypingContext::expression_primitive
expression_primitive(o, env, name, args, span) ==
    Only({Then(ts, expression_primitive_ty(o, name, Head(ts.ty), Tail(ts.ty), span)) :
            ts \in {TypeEach(o, env, args, span, 1)}})

\* ExprP::Identifier
TypeIdentifier(env, x, span) ==
    CASE x[3][1] = "Slot" ->
            IF x[3][2] \in DOMAIN env THEN Outcome(env[x[3][2]], <<>>, <<>>)
            ELSE Outcome(TyAny, <<>>, <<>>)
      [] x[3][1] = "Global" ->
            IF x[3][2] # <<>> THEN Outcome(x[3][2][1], <<>>, <<>>)
            ELSE builtin(x[2], span)
      [] OTHER -> Outcome(TyAny, <<>>, <<>>)

\* a bool_ret that looks at the left operand only
bool_retLhsOnly(lhs, rhs) == IF is_never(lhs) THEN TyNever ELSE TyBool

\* the bool_ret of ExprP::Op
bool_ret(lhs, rhs) == IF is_never(lhs) \/ is_never(rhs) THEN TyNever ELSE TyBool

\* ExprP::Op, on the types of the two operands
TypeOp(o, lhs, bop, rhs, span) ==
    CASE bop \in {"And", "Or"} ->
            Outcome(IF is_never(lhs) THEN TyNever ELSE Union2(lhs, rhs), <<>>, <<>>)
      [] bop \in {"Equal", "NotEqual"} ->
            Returning(validate_type(o, lhs, rhs, span), bool_ret(lhs, rhs))
      [] bop \in {"In", "NotIn"} ->
            Only({Returning(r, bool_ret(lhs, rhs)) :
                    r \in {expression_primitive_ty(o, "BinOp(In)", rhs, <<lhs>>, span)}})
      [] bop \in {"Less", "LessOrEqual", "Greater", "GreaterOrEqual"} ->
            Only({Returning(r, bool_ret(lhs, rhs)) :
                    r \in {expression_primitive_ty(o, "BinOp(Less)", lhs, <<rhs>>, span)}})
      [] OTHER -> expression_primitive_ty(o, BinOpAttr(bop), lhs, <<rhs>>, span)

\* TypingContext::expression_type
expression_type(o, env, x, span) ==
    CASE x[1] = "Tuple" ->
            Only({Returning(ts, TyTuple(ts.ty)) : ts \in {TypeEach(o, env, x[2], span, 1)}})
      [] x[1] = "Dot" ->
            Only({Then(a, expression_attribute(o, a.ty, x[3], Append(span, 2))) :
                    a \in {expression_type(o, env, x[2], Append(span, 1))}})
      [] x[1] = "Call" ->
            Only({Then(Then(args_ty, f_ty), validate_call(o, f_ty.ty, args_ty.ty, span)) :
                    args_ty \in {TypeArgs(o, env, x[3], span, 2)},
                    f_ty \in {expression_type(o, env, x[2], Append(span, 1))}})
      [] x[1] = "ArrayIndirection" ->
            expression_primitive(o, env, "Index", <<x[2], x[3]>>, span)
      [] x[1] = "Slice" ->
            Only({Then(Then(bounds, a), expression_attribute(o, a.ty, "Slice", span)) :
                    bounds \in {TypeSlice(o, env, <<x[3], x[4], x[5]>>, span, 2)},
                    a \in {expression_type(o, env, x[2], Append(span, 1))}})
      [] x[1] = "Identifier" -> TypeIdentifier(env, x, span)
      [] x[1] = "Lambda" ->
            Then(approximation("We don't type check lambdas", <<>>),
                 Outcome(TyOfName("function"), <<>>, <<>>))
      [] x[1] = "Literal" ->
            Outcome(CASE x[2] = "Int" -> TyInt
                      [] x[2] = "Float" -> TyFloat
                      [] x[2] = "String" -> TyString, <<>>, <<>>)
      [] x[1] = "Not" ->
            Only({Returning(a, IF is_never(a.ty) THEN TyNever ELSE TyBool) :
                    a \in {expression_type(o, env, x[2], Append(span, 1))}})
      [] x[1] = "Minus" -> expression_primitive(o, env, "UnOp(Minus)", <<x[2]>>, span)
      [] x[1] = "Plus" -> expression_primitive(o, env, "UnOp(Plus)", <<x[2]>>, span)
      [] x[1] = "BitNot" -> expression_primitive(o, env, "UnOp(BitNot)", <<x[2]>>, span)
      [] x[1] = "Op" ->
            Only({Then(Then(lhs, rhs), TypeOp(o, lhs.ty, x[3], rhs.ty, span)) :
                    lhs \in {expression_type(o, env, x[2], Append(span, 1))},
                    rhs \in {expression_type(o, env, x[4], Append(span, 2))}})
      [] x[1] = "If" ->
            Only({Returning(Then(c, Then(t, f)),
                            IF is_never(c.ty) THEN TyNever ELSE Union2(t.ty, f.ty)) :
                    c \in {expression_type(o, env, x[2], Append(span, 1))},
                    t \in {expression_type(o, env, x[3], Append(span, 2))},
                    f \in {expression_type(o, env, x[4], Append(span, 3))}})
      [] x[1] = "List" ->
            Only({Returning(ts, TyList(Unions(ts.ty))) :
                    ts \in {TypeEach(o, env, x[2], span, 1)}})
      [] x[1] = "Dict" ->
            Only({Returning(kvs,
                    TyDict(Unions([i \in 1..Len(x[2]) |-> kvs.ty[2 * i - 1]]),
                           Unions([i \in 1..Len(x[2]) |-> kvs.ty[2 * i]]))) :
                    kvs \in {TypeEach(o, env,
                                [i \in 1..(2 * Len(x[2])) |-> x[2][(i + 1) \div 2][2 - (i % 2)]],
                                span, 1)}})
      [] x[1] = "ListComprehension" ->
            Only({Then(b, Returning(a, TyList(a.ty))) :
                    b \in {check_comprehension(o, env, x[3], x[4], span, 2)},
                    a \in {expression_type(o, env, x[2], Append(span, 1))}})
      [] x[1] = "DictComprehension" ->
            Only({Then(b, Returning(Then(k, v), TyDict(k.ty, v.ty))) :
                    b \in {check_comprehension(o, env, x[4], x[5], span, 3)},
                    k \in {expression_type(o, env, x[2], Append(span, 1))},
                    v \in {expression_type(o, env, x[3], Append(span, 2))}})

(***************************************************************************)
(* The checking pass: one TypingContext, created with no diagnostics, on    *)
(* which attribute lookups and expression walks are run one after another.  *)
(* call is the last operation: its name, arguments and result, and the two  *)
(* diagnostic lists as they were when it started.                           *)
(***************************************************************************)
MaxDiag == 1

\* the environment of the pass: binding 1 is a list of int, binding 2 an int
TypesEnv == <<TyList(TyInt), TyInt>>

NoCall == [name |-> "none", arg |-> <<>>, res |-> <<>>,
           errors |-> <<>>, approximoations |-> <<>>]

\* the types attributes are looked up on
AttrTypes ==
    Elems \cup {TyFloat}
    \cup {Unions(<<a, b>>) :
            a, b \in {TyInt, TyString, TyFloat, TyList(TyInt),
                      TyStruct(<< <<"a", TyString>> >>, TRUE)}}
    \cup {Unions(<<TyInt, TyString, TyFloat>>)}

\* the leaves of the trees that are checked: a global that is no builtin, an
\* int literal, a lambda over a global that is no builtin, a local binding
BadGlobal == <<"Identifier", "not_a_symbol", <<"Global", <<>>>> >>
IntLit == <<"Literal", "Int">>
LambdaBad == <<"Lambda", BadGlobal>>
Leaves == {BadGlobal, IntLit, LambdaBad}

\* the callees: fail, hash, and the leaves
FailGlobal == <<"Identifier", "fail", <<"Global", <<>>>> >>
HashGlobal == <<"Identifier", "hash", <<"Global", <<>>>> >>

Exprs ==
    Leaves
    \cup {<<"Identifier", "x", r>> : r \in {<<"Slot", 1>>, <<"Slot", 3>>, <<"None">>,
                                            <<"Global", <<TyString>>>>}}
    \cup {<<"Literal", k>> : k \in {"Float", "String"}}
    \cup {<<"Op", a, bop, b>> : a, b \in Leaves, bop \in {"Add", "And", "Equal", "In", "Less"}}
    \cup {<<"If", c, t, f>> : c, t, f \in Leaves}
    \cup {<<"Call", f, <<<<k, a>>>> >> :
            f \in {FailGlobal, HashGlobal, BadGlobal, IntLit},
            k \in {"Positional", "Args", "KwArgs"}, a \in Leaves}
    \cup {<<"Call", FailGlobal, << <<"Named", "msg", a>>, <<"Positional", b>> >> >> :
            a, b \in Leaves}
    \cup {<<k, a>> : k \in {"Not", "Minus", "Plus", "BitNot"}, a \in Leaves}
    \cup {<<k, <<a, b>> >> : k \in {"Tuple", "List"}, a, b \in Leaves}
    \cup {<<"Dict", << <<a, b>> >> >> : a, b \in Leaves}
    \cup {<<"Dot", a, "removeprefix">> : a \in Leaves \cup {<<"Literal", "String">>}}
    \cup {<<"ArrayIndirection", a, b>> : a, b \in Leaves}
    \cup {<<"Slice", a, <<b>>, <<>>, <<c>> >> : a, b, c \in Leaves}
    \cup {<<"ListComprehension", a, b, << <<k, c>> >> >> :
            a, b, c \in {BadGlobal, IntLit}, k \in {"For", "If"}}
    \cup {<<"DictComprehension", a, b, c, <<>> >> : a, b, c \in {BadGlobal, IntLit}}
    \cup {<<"Op", <<"Call", FailGlobal, << <<"Positional", <<"Literal", "String">> >> >> >>,
            "Add", IntLit>>,
          <<"List", << <<"Op", BadGlobal, "Add", BadGlobal>>,
                       <<"If", BadGlobal, IntLit, BadGlobal>> >> >>,
          <<"Call", FailGlobal, << <<"Positional", <<"Op", BadGlobal, "Add", IntLit>> >> >> >>,
          <<"Not", <<"Tuple", <<LambdaBad, BadGlobal, <<"Minus", BadGlobal>> >> >> >>}

\* x.attribute(attr, ctx) on a type of the pass
DoAttribute(t, attr) ==
    /\ Len(errors) + Len(approximoations) < MaxDiag
    /\ \E r \in {Attribute(t, attr, oracle)} :
        /\ approximoations' = approximoations \o r.apps
        /\ call' = [name |-> "attribute", arg |-> <<t, attr>>, res |-> r.res,
                    errors |-> errors, approximoations |-> approximoations]
    /\ UNCHANGED <<xs, op, oracle, types, errors>>

\* ctx.expression_type(x) on the root of a tree
DoExpressionType(x) ==
    /\ Len(errors) + Len(approximoations) < MaxDiag
    /\ \E r \in {expression_type(oracle, types, x, <<>>)} :
        /\ errors' = errors \o r.errs
        /\ approximoations' = approximoations \o r.apps
        /\ call' = [name |-> "expression_type", arg |-> x, res |-> r.ty,
                    errors |-> errors, approximoations |-> approximoations]
    /\ UNCHANGED <<xs, op, oracle, types>>

InitCtx ==
    /\ xs = <<>>
    /\ op = NoOp
    /\ oracle \in Oracles
    /\ types = TypesEnv
    /\ errors = <<>>
    /\ approximoations = <<>>
    /\ call = NoCall

NextCtx ==
    \/ \E t \in AttrTypes, attr \in Attrs : DoAttribute(t, attr)
    \/ \E x \in Exprs : DoExpressionType(x)

SpecCtx == InitCtx /\ [][NextCtx]_vars

(***************************************************************************)
(* The operations of the context one at a time: a TypingContext over one   *)
(* of several environments, which holds the errors of earlier operations,  *)
(* and on which one operation is run.                                       *)
(***************************************************************************)
\* the function types of the builtins hash and fail
HashFn == TyFunction("", <<ParamPosOnly(TyString)>>, TyInt)
FailFn == TyFunction("", <<ParamArgs(TyAny)>>, TyNever)

\* the types that are called
CallFuns ==
    {TyNever, TyAny, TyInt, TyList(TyAny), TyTuple(<<TyInt>>), TyDict(TyString, TyInt),
     TyStruct(<<>>, TRUE), HashFn, FailFn,
     Unions(<<HashFn, TyList(TyAny)>>), Unions(<<TyList(TyAny), TyDict(TyString, TyInt)>>)}

\* the argument lists of the calls
CallArgs ==
    {<<>>, << <<"Pos", TyString>> >>, << <<"Pos", TyInt>> >>,
     << <<"Name", "x", TyString>> >>, << <<"Args", TyList(TyString)>> >>,
     << <<"Pos", TyString>>, <<"Pos", TyString>> >>}

\* the types that are compared by validate_type
ValidateTypes ==
    {TyNever, TyAny, TyInt, TyBool, TyString, TyList(TyInt), TyList(TyString),
     Unions(<<TyInt, TyString>>)}

\* ctx.validate_call(fun, args, span)
DoValidateCall(fun, args) ==
    /\ Len(errors) + Len(approximoations) < MaxDiag
    /\ \E r \in {validate_call(oracle, fun, args, <<>>)} :
        /\ errors' = errors \o r.errs
        /\ call' = [name |-> "validate_call", arg |-> <<fun, args>>, res |-> r.ty,
                    errors |-> errors, approximoations |-> approximoations]
    /\ UNCHANGED <<xs, op, oracle, types, approximoations>>

\* ctx.validate_type(got, require, span): it returns nothing
DoValidateType(got, require) ==
    /\ Len(errors) + Len(approximoations) < MaxDiag
    /\ \E r \in {validate_type(oracle, got, require, <<>>)} :
        /\ errors' = errors \o r.errs
        /\ call' = [name |-> "validate_type", arg |-> <<got, require>>, res |-> <<>>,
                    errors |-> errors, approximoations |-> approximoations]
    /\ UNCHANGED <<xs, op, oracle, types, approximoations>>

\* the union Ty::unions makes of three structs: the last two merge to a
\* struct that orders before the first
StructsUnion ==
    Unions(<<TyStruct(<< <<"a", TyInt>> >>, FALSE), TyStruct(<< <<"a", TyInt>> >>, TRUE),
             TyStruct(<< <<"a", TyString>> >>, TRUE)>>)

\* the environments of the passes: binding 1 is a list of int, a union of
\* structs, a dict, a union with a list or a dict among its alternatives, or
\* Any; binding 2 is an int
Envs ==
    {TypesEnv, <<StructsUnion, TyInt>>,
     <<TyDict(TyString, TyInt), TyInt>>,
     <<Unions(<<TyList(TyInt), TyDict(TyString, TyInt)>>), TyInt>>,
     <<Unions(<<TyInt, TyList(TyString)>>), TyInt>>,
     <<TyAny, TyInt>>}

\* the operands: a call of fail (Never, no error), a global that is no
\* builtin (Never, one error), an int, a string, the local binding 1
FailCall == <<"Call", FailGlobal, << <<"Positional", <<"Literal", "String">> >> >> >>
Slot1 == <<"Identifier", "x", <<"Slot", 1>> >>
Operands == {FailCall, BadGlobal, IntLit, <<"Literal", "String">>, Slot1}

BoolBinOps ==
    {"Equal", "NotEqual", "Less", "LessOrEqual", "Greater", "GreaterOrEqual", "In", "NotIn"}
ArithBinOps ==
    {"Subtract", "Add", "Multiply", "Percent", "Divide", "FloorDivide", "BitAnd", "BitOr",
     "BitXor", "LeftShift", "RightShift"}

\* the operator and conditional expressions over the operands
OpExprs ==
    {<<"Op", a, bop, b>> : a, b \in Operands,
                           bop \in BoolBinOps \cup ArithBinOps \cup {"And", "Or"}}
    \cup {<<"Not", a>> : a \in Operands}
    \cup {<<"If", c, t, f>> : c, t, f \in Operands}

(***************************************************************************)
(* Assignment targets and bind expressions.  An assignment target          *)
(* (AssignP) is <<"Tuple", xs>>, <<"ArrayIndirection", a, b>>,              *)
(* <<"Dot", a, attr>> or <<"Identifier", name, binding>>, the binding       *)
(* being <<>> (not resolved) or <<i>>.  A bind expression (BindExpr) is     *)
(* <<"Expr", x>>, <<"GetIndex", i, b>>, <<"Iter", b>>,                      *)
(* <<"AssignOp", lhs, op, rhs>>, <<"SetIndex", id, index, b>>,              *)
(* <<"ListAppend", id, x>> or <<"ListExtend", id, x>>.  A panic ends the    *)
(* operation: its outcome has the value <<"Panic", message>> and the        *)
(* diagnostics appended before it.                                          *)
(***************************************************************************)
Panic(message) == <<"Panic", message>>
Panicked(a) == a.ty[1] = "Panic"

\* b after a, unless a has panicked
ThenUnlessPanicked(a, b) == IF Panicked(a) THEN a ELSE Then(a, b)

\* self.types[id]: indexing the map panics on a binding that has no entry
TypesIndex(env, id) ==
    IF id \in DOMAIN env THEN Outcome(env[id], <<>>, <<>>)
    ELSE Outcome(Panic("no entry found for key"), <<>>, <<>>)

\* Ty::probably_a_list
probably_a_list(t, o) == ~is_never(t) /\ Intersects(t, TyList(TyAny), o)

\* TypingContext::expression_assign
expression_assign(o, env, x, span) ==
    CASE x[1] \in {"Tuple", "Dot"} -> approximation("expression_assignment", x)
      [] x[1] = "ArrayIndirection" ->
            expression_primitive(o, env, "Index", <<x[2], x[3]>>, span)
      [] x[1] = "Identifier" ->
            IF x[3] # <<>> /\ x[3][1] \in DOMAIN env
            THEN Outcome(env[x[3][1]], <<>>, <<>>)
            ELSE Outcome(Panic("Unknown identifier"), <<>>, <<>>)

\* the attribute an augmented assignment is dispatched to
AssignOpAttr(aop) == BinOpAttr(aop)

\* a loop that knows about lists alone
RECURSIVE SetIndexLoopListsOnly(_, _, _)
SetIndexLoopListsOnly(v, index, e) ==
    IF v = <<>> THEN <<>>
    ELSE (IF Variant(Head(v)) = "List" THEN <<TyList(e)>> ELSE <<>>)
         \o SetIndexLoopListsOnly(Tail(v), index, e)

\* the loop of BindExpr::SetIndex over the alternatives of the target's type
RECURSIVE SetIndexLoop(_, _, _)
SetIndexLoop(v, index, e) ==
    IF v = <<>> THEN <<>>
    ELSE (CASE Variant(Head(v)) = "List" -> <<TyList(e)>>
            [] Variant(Head(v)) = "Dict" -> <<TyDict(index, e)>>
            [] OTHER -> <<>>)
         \o SetIndexLoop(Tail(v), index, e)

RECURSIVE expression_bind_type(_, _, _, _)

\* TypingContext::expression_bind_type
expression_bind_type(o, env, x, span) ==
    CASE x[1] = "Expr" -> expression_type(o, env, x[2], Append(span, 1))
      [] x[1] = "GetIndex" ->
            Only({IF Panicked(b) THEN b ELSE Returning(b, Indexed(b.ty, x[2])) :
                    b \in {expression_bind_type(o, env, x[3], Append(span, 1))}})
      [] x[1] = "Iter" ->
            Only({ThenUnlessPanicked(b, from_iterated(o, b.ty, Append(span, 1))) :
                    b \in {expression_bind_type(o, env, x[2], Append(span, 1))}})
      [] x[1] = "AssignOp" ->
            Only({ThenUnlessPanicked(Then(rhs, lhs),
                        expression_primitive_ty(o, AssignOpAttr(x[3]), lhs.ty, <<rhs.ty>>,
                                                Append(span, 1))) :
                    rhs \in {expression_type(o, env, x[4], Append(span, 2))},
                    lhs \in {expression_assign(o, env, x[2], Append(span, 1))}})
      [] x[1] = "SetIndex" ->
            Only({IF Panicked(e) THEN Then(index, e)
                  ELSE ThenUnlessPanicked(Then(Then(index, e), t),
                        Returning(IF is_list(t.ty)
                                  THEN validate_type(o, index.ty, TyInt, Append(span, 1))
                                  ELSE Outcome(TyAny, <<>>, <<>>),
                                  Unions(SetIndexLoop(iter_union(t.ty), index.ty, e.ty)))) :
                    index \in {expression_type(o, env, x[3], Append(span, 1))},
                    e \in {expression_bind_type(o, env, x[4], Append(span, 2))},
                    t \in {TypesIndex(env, x[2])}})
      [] x[1] = "ListAppend" ->
            Only({IF Panicked(t) THEN t
                  ELSE IF probably_a_list(t.ty, o)
                  THEN Only({Returning(e, TyList(e.ty)) :
                              e \in {expression_type(o, env, x[3], Append(span, 1))}})
                  ELSE Outcome(TyNever, <<>>, <<>>) :
                    t \in {TypesIndex(env, x[2])}})
      [] x[1] = "ListExtend" ->
            Only({IF Panicked(t) THEN t
                  ELSE IF probably_a_list(t.ty, o)
                  THEN Only({Returning(it, TyList(it.ty)) :
                              it \in {Only({Then(e, from_iterated(o, e.ty, Append(span, 1))) :
                                        e \in {expression_type(o, env, x[3],
                                                               Append(span, 1))}})}})
                  ELSE Outcome(TyNever, <<>>, <<>>) :
                    t \in {TypesIndex(env, x[2])}})

\* the targets of an augmented assignment: a binding with an entry, a
\* binding with no entry, an identifier that was not resolved, and the
\* targets that are no identifier
IdBound == <<"Identifier", "x", <<1>> >>
IdNoEntry == <<"Identifier", "x", <<3>> >>
IdUnresolved == <<"Identifier", "x", <<>> >>
AssignTargets ==
    {IdBound, IdNoEntry, IdUnresolved, <<"ArrayIndirection", Slot1, IntLit>>,
     <<"Dot", Slot1, "a">>, <<"Tuple", <<IdBound, IdBound>> >>}

\* the reads of an identifier that has no type: not resolved, or a slot
\* with no entry
UnresolvedReads == {<<"Identifier", "x", <<"None">> >>, <<"Identifier", "x", <<"Slot", 3>> >>}

\* the bind expressions that are typed
BindExprs ==
    {<<"AssignOp", lhs, aop, rhs>> :
        lhs \in AssignTargets, aop \in {"Add", "BitOr"}, rhs \in {IntLit, BadGlobal}}
    \cup {<<"SetIndex", id, index, <<"Expr", e>> >> :
            id \in 1..3, index \in {IntLit, <<"Literal", "String">>}, e \in {IntLit, BadGlobal}}
    \cup {<<k, id, e>> : k \in {"ListAppend", "ListExtend"}, id \in 1..3,
                         e \in {IntLit, Slot1, BadGlobal}}
    \cup {<<"Expr", e>> : e \in UnresolvedReads \cup {Slot1}}
    \cup {<<"Iter", <<"Expr", e>> >> : e \in UnresolvedReads \cup {Slot1, IntLit}}
    \cup {<<"GetIndex", i, <<"Expr", <<"Tuple", <<IntLit, Slot1>> >> >> >> : i \in 0..2}
    \cup {<<"GetIndex", 0, <<"SetIndex", 3, IntLit, <<"Expr", IntLit>> >> >>,
          <<"Iter", <<"AssignOp", IdUnresolved, "Add", IntLit>> >>}

\* ctx.expression_bind_type(x) on a bind expression
DoExpressionBindType(x) ==
    /\ Len(errors) + Len(approximoations) < MaxDiag
    /\ \E r \in {expression_bind_type(oracle, types, x, <<>>)} :
        /\ errors' = errors \o r.errs
        /\ approximoations' = approximoations \o r.apps
        /\ call' = [name |-> "expression_bind_type", arg |-> x, res |-> r.ty,
                    errors |-> errors, approximoations |-> approximoations]
    /\ UNCHANGED <<xs, op, oracle, types>>

\* the names types are made of: those Ty::name matches, the name of the
\* third structural variant, and names of nominal types
TypeNames == {"list", "dict", "function", "struct", "never", "tuple", "int", "string", "foo"}

\* Ty::name(n)
DoName(n) ==
    /\ call' = [name |-> "name", arg |-> n, res |-> TyOfName(n),
                errors |-> errors, approximoations |-> approximoations]
    /\ UNCHANGED <<xs, op, oracle, types, errors, approximoations>>

\* the error an earlier walk of a global that is no builtin has left
PriorError == mk_error(<<>>, <<"UnknownBuiltin", "not_a_symbol">>)

\* a context that holds the errors of earlier operations
InitOps ==
    /\ xs = <<>>
    /\ op = NoOp
    /\ oracle \in Oracles
    /\ types \in Envs
    /\ errors \in {[i \in 1..n |-> PriorError] : n \in 0..(MaxDiag - 1)}
    /\ approximoations = <<>>
    /\ call = NoCall

\* one operation on the context
NextOps ==
    \/ call = NoCall /\ \E fun \in CallFuns, args \in CallArgs : DoValidateCall(fun, args)
    \/ call = NoCall /\ \E got, require \in ValidateTypes : DoValidateType(got, require)
    \/ call = NoCall /\ \E x \in OpExprs \cup UnresolvedReads : DoExpressionType(x)
    \/ call = NoCall /\ \E x \in BindExprs : DoExpressionBindType(x)
    \/ call = NoCall /\ \E n \in TypeNames : DoName(n)

SpecOps == InitOps /\ [][NextOps]_vars

(***************************************************************************)
(* The runtime type matcher (TypeCompiled).  A runtime value is             *)
(* <<"none">>, <<"int", n>>, <<"bool", b>>, <<"string", s>>,                 *)
(* <<"list", vs>>, <<"tuple", vs>>, <<"dict", kvs>> (kvs a sequence of       *)
(* pairs <<k, v>>) or <<"function", name, type>> (type is <<>>, or <<a>>     *)
(* when the value has an attribute type whose value is a).  A string is    *)
(* the sequence of its characters.  A compiled matcher is a tuple headed   *)
(* by the name of the struct that implements it.                           *)
(***************************************************************************)
\* the strings that are used
StrEmpty == <<>>
StrInt == <<"i", "n", "t">>
StrBool == <<"b", "o", "o", "l">>
StrString == <<"s", "t", "r", "i", "n", "g">>
StrStr == <<"s", "t", "r">>
StrList == <<"l", "i", "s", "t">>
StrFunction == <<"f", "u", "n", "c", "t", "i", "o", "n">>
StrUnderscoreA == <<"_", "a">>
StrUnderscore == <<"_">>
StrX == <<"x">>

\* Value::unpack_str, unpack_int, unpack_bool, is_none and the from_value of
\* ListRef, Tuple and DictRef, as tests
unpack_str_is_some(v) == v[1] = "string"
unpack_int_is_some(v) == v[1] = "int"
unpack_bool_is_some(v) == v[1] = "bool"
is_none(v) == v[1] = "none"
is_list_value(v) == v[1] = "list"
is_tuple_value(v) == v[1] = "tuple"
is_dict_value(v) == v[1] = "dict"

\* Value::get_type: the name of the runtime type of a value
get_type(v) ==
    CASE v[1] = "none" -> <<"N", "o", "n", "e", "T", "y", "p", "e">>
      [] v[1] = "int" -> StrInt
      [] v[1] = "bool" -> StrBool
      [] v[1] = "string" -> StrString
      [] v[1] = "list" -> StrList
      [] v[1] = "tuple" -> <<"t", "u", "p", "l", "e">>
      [] v[1] = "dict" -> <<"d", "i", "c", "t">>
      [] v[1] = "function" -> StrFunction

\* StarlarkValue::matches_type: the runtime type name equals t
matches_type(v, t) == get_type(v) = t

\* the constructors of the matchers
type_anything == <<"Anything">>
type_none == <<"IsNone">>
type_string == <<"IsString">>
\* an int matcher that is the bool matcher
type_intAsBool == <<"IsBool">>
type_int == <<"IsInt">>
type_bool == <<"IsBool">>
type_concrete(t) == <<"IsConcrete", t>>
type_list == <<"IsList">>
\* a list-of matcher that is the matcher of the element
type_list_ofElement(t) == t
type_list_of(t) == <<"IsListOf", t>>
\* an any-of-two matcher that forgets the second alternative
type_any_of_twoFirst(t1, t2) == t1
type_any_of_two(t1, t2) == <<"IsAnyOfTwo", t1, t2>>
type_any_of(ts) == <<"IsAnyOf", ts>>
type_dict == <<"IsDict">>
\* a dict matcher that tests the keys alone
type_dict_ofKeys(kt, vt) == <<"IsDictOf", kt, <<"Anything">> >>
type_dict_of(kt, vt) == <<"IsDictOf", kt, vt>>
\* a tuple matcher that takes a value for a tuple when one component's matcher takes it
type_tuple_ofAnyComponent(ts) == <<"IsAnyOf", ts>>
type_tuple_of(ts) == <<"IsTupleOf", ts>>

RECURSIVE matches(_, _)
\* TypeCompiledImpl::matches of each matcher
matches(m, value) ==
    CASE m[1] = "Anything" -> TRUE
      [] m[1] = "IsNone" -> is_none(value)
      [] m[1] = "IsString" -> unpack_str_is_some(value) \/ matches_type(value, StrString)
      [] m[1] = "IsInt" -> unpack_int_is_some(value) \/ matches_type(value, StrInt)
      [] m[1] = "IsBool" -> unpack_bool_is_some(value) \/ matches_type(value, StrBool)
      [] m[1] = "IsConcrete" -> matches_type(value, m[2])
      [] m[1] = "IsList" -> is_list_value(value)
      [] m[1] = "IsListOf" ->
            /\ is_list_value(value)
            /\ \A i \in 1..Len(value[2]) : matches(m[2], value[2][i])
      [] m[1] = "IsAnyOfTwo" -> matches(m[2], value) \/ matches(m[3], value)
      [] m[1] = "IsAnyOf" -> \E i \in 1..Len(m[2]) : matches(m[2][i], value)
      [] m[1] = "IsDict" -> is_dict_value(value)
      [] m[1] = "IsDictOf" ->
            /\ is_dict_value(value)
            /\ \A i \in 1..Len(value[2]) :
                    matches(m[2], value[2][i][1]) /\ matches(m[3], value[2][i][2])
      [] m[1] = "IsTupleOf" ->
            /\ is_tuple_value(value)
            /\ Len(value[2]) = Len(m[2])
            /\ \A i \in 1..Len(m[2]) : matches(m[2][i], value[2][i])

\* a wildcard only when the string is empty
is_wildcardEmptyOnly(x) == x = <<>>
\* TypeCompiled::is_wildcard
is_wildcard(x) == x = <<>> \/ Head(x) = "_"

\* TypeCompiled::is_wildcard_value
is_wildcard_value(x) == unpack_str_is_some(x) /\ is_wildcard(x[2])

\* TypeCompiled::from_str
from_str(t) ==
    IF is_wildcard(t) THEN type_anything
    ELSE CASE t = StrString -> type_string
           [] t = StrInt -> type_int
           [] t = StrBool -> type_bool
           [] OTHER -> type_concrete(t)

\* the decimal digits of a natural number
DigitChars == <<"0", "1", "2", "3", "4", "5", "6", "7", "8", "9">>

RECURSIVE Digits(_)
Digits(n) ==
    IF n < 10 THEN <<DigitChars[n + 1]>>
    ELSE Digits(n \div 10) \o <<DigitChars[(n % 10) + 1]>>

RECURSIVE collect_repr(_)
RECURSIVE ReprItems(_)
RECURSIVE ReprEntries(_)

\* the representations of the elements of a container, separated by ", "
ReprItems(vs) ==
    IF vs = <<>> THEN <<>>
    ELSE IF Len(vs) = 1 THEN collect_repr(vs[1])
    ELSE collect_repr(vs[1]) \o <<",", " ">> \o ReprItems(Tail(vs))

\* the entries "k: v" of a dict, separated by ", "
ReprEntries(kvs) ==
    IF kvs = <<>> THEN <<>>
    ELSE IF Len(kvs) = 1 THEN collect_repr(kvs[1][1]) \o <<":", " ">> \o collect_repr(kvs[1][2])
    ELSE collect_repr(kvs[1][1]) \o <<":", " ">> \o collect_repr(kvs[1][2])
            \o <<",", " ">> \o ReprEntries(Tail(kvs))

\* StarlarkValue::collect_repr: the text of a value as it is written in a program
collect_repr(v) ==
    CASE v[1] = "none" -> <<"N", "o", "n", "e">>
      [] v[1] = "int" -> IF v[2] < 0 THEN <<"-">> \o Digits(-v[2]) ELSE Digits(v[2])
      [] v[1] = "bool" -> IF v[2] THEN <<"T", "r", "u", "e">> ELSE <<"F", "a", "l", "s", "e">>
      [] v[1] = "string" -> <<"\"">> \o v[2] \o <<"\"">>
      [] v[1] = "list" -> <<"[">> \o ReprItems(v[2]) \o <<"]">>
      [] v[1] = "tuple" ->
            IF Len(v[2]) = 1 THEN <<"(">> \o collect_repr(v[2][1]) \o <<",", ")">>
            ELSE <<"(">> \o ReprItems(v[2]) \o <<")">>
      [] v[1] = "dict" -> <<"{">> \o ReprEntries(v[2]) \o <<"}">>
      [] v[1] = "function" -> v[2]

\* Value::to_str: a string is its own text, any other value its representation
to_str(v) == IF unpack_str_is_some(v) THEN v[2] ELSE collect_repr(v)

\* ty.get_attr("type", heap).ok().flatten(): <<>> or <<the attribute>>
get_attr_type(ty) == IF ty[1] = "function" THEN ty[3] ELSE <<>>

\* an invalid annotation reported without the hint
invalid_type_annotationNoHint(ty) == <<"InvalidTypeAnnotation", to_str(ty)>>
\* invalid_type_annotation
invalid_type_annotation(ty) ==
    IF get_attr_type(ty) # <<>> /\ unpack_str_is_some(get_attr_type(ty)[1])
    THEN <<"PerhapsYouMeant", to_str(ty), get_attr_type(ty)[1][2]>>
    ELSE <<"InvalidTypeAnnotation", to_str(ty)>>

RECURSIVE TypeCompiledNew(_)
RECURSIVE TryMapNew(_)

\* try_map(|t| TypeCompiled::new(*t, heap)): <<"Ok", matchers>>, or the first error
TryMapNew(ts) ==
    IF ts = <<>> THEN <<"Ok", <<>> >>
    ELSE Only({IF h[1] = "Err" THEN h
               ELSE Only({IF r[1] = "Err" THEN r ELSE <<"Ok", <<h[2]>> \o r[2]>> :
                            r \in {TryMapNew(Tail(ts))}}) :
                    h \in {TypeCompiledNew(Head(ts))}})

\* TypeCompiled::from_tuple
from_tuple(t) ==
    Only({IF ts[1] = "Err" THEN ts ELSE <<"Ok", type_tuple_of(ts[2])>> :
            ts \in {TryMapNew(t)}})

\* TypeCompiled::from_list
from_list(t) ==
    CASE Len(t) = 0 -> <<"Err", <<"InvalidTypeAnnotation", collect_repr(<<"list", t>>)>> >>
      [] Len(t) = 1 ->
            IF is_wildcard_value(t[1]) THEN <<"Ok", type_list>>
            ELSE Only({IF m[1] = "Err" THEN m ELSE <<"Ok", type_list_of(m[2])>> :
                        m \in {TypeCompiledNew(t[1])}})
      [] Len(t) = 2 ->
            Only({IF t1[1] = "Err" THEN t1
                  ELSE Only({IF t2[1] = "Err" THEN t2
                             ELSE <<"Ok", type_any_of_two(t1[2], t2[2])>> :
                                t2 \in {TypeCompiledNew(t[2])}}) :
                    t1 \in {TypeCompiledNew(t[1])}})
      [] OTHER ->
            Only({IF ts[1] = "Err" THEN ts ELSE <<"Ok", type_any_of(ts[2])>> :
                    ts \in {TryMapNew(t)}})

\* TypeCompiled::from_dict
from_dict(t) ==
    IF Len(t) = 1
    THEN IF is_wildcard_value(t[1][1]) /\ is_wildcard_value(t[1][2])
         THEN <<"Ok", type_dict>>
         ELSE Only({IF tk[1] = "Err" THEN tk
                    ELSE Only({IF tv[1] = "Err" THEN tv
                               ELSE <<"Ok", type_dict_of(tk[2], tv[2])>> :
                                    tv \in {TypeCompiledNew(t[1][2])}}) :
                        tk \in {TypeCompiledNew(t[1][1])}})
    ELSE <<"Err", <<"InvalidTypeAnnotation", collect_repr(<<"dict", t>>)>> >>

\* TypeCompiled::new: <<"Ok", matcher>> or <<"Err", error>>
TypeCompiledNew(ty) ==
    IF unpack_str_is_some(ty) THEN <<"Ok", from_str(ty[2])>>
    ELSE IF is_none(ty) THEN <<"Ok", type_none>>
    ELSE IF is_tuple_value(ty) THEN from_tuple(ty[2])
    ELSE IF is_list_value(ty) THEN from_list(ty[2])
    ELSE IF is_dict_value(ty) THEN from_dict(ty[2])
    ELSE <<"Err", invalid_type_annotation(ty)>>

\* the character U+0060, the grave accent, which a string of TLA+ cannot hold
Backquote == "U+0060"

\* the Display of TypingError: the message of each error
TypingErrorDisplay(e) ==
    CASE e[1] = "TypeAnnotationMismatch" ->
            <<"V", "a", "l", "u", "e", " ", Backquote>> \o e[2] \o <<Backquote, " ", "o", "f",
                " ", "t", "y", "p", "e", " ", Backquote>>
                \o e[3] \o <<Backquote, " ", "d", "o", "e", "s", " ", "n", "o", "t", " ", "m",
                    "a", "t", "c", "h", " ", "t", "h", "e", " ", "t", "y", "p", "e", " ", "a",
                    "n", "n", "o", "t", "a", "t", "i", "o", "n", " ", Backquote>>
                \o e[4] \o <<Backquote, " ", "f", "o", "r", " ">> \o e[5]
      [] e[1] = "InvalidTypeAnnotation" ->
            <<"T", "y", "p", "e", " ", Backquote>> \o e[2] \o <<Backquote, " ", "i", "s", " ",
                "n", "o", "t", " ", "a", " ", "v", "a", "l", "i", "d", " ", "t", "y", "p", "e",
                " ", "a", "n", "n", "o", "t", "a", "t", "i", "o", "n">>
      [] e[1] = "PerhapsYouMeant" ->
            <<"F", "o", "u", "n", "d", " ", Backquote>> \o e[2] \o <<Backquote, " ", "i", "n",
                "s", "t", "e", "a", "d", " ", "o", "f", " ", "a", " ", "v", "a", "l", "i", "d",
                " ", "t", "y", "p", "e", " ", "a", "n", "n", "o", "t", "a", "t", "i", "o", "n",
                ".", " ", "P", "e", "r", "h", "a", "p", "s", " ", "y", "o", "u", " ", "m", "e",
                "a", "n", "t", " ", Backquote, "\"">>
                \o e[3] \o <<"\"", Backquote, "?">>

\* Value::is_type: <<"Ok", the test>> or the error of the compilation
is_type(self, ty) ==
    Only({IF m[1] = "Err" THEN m ELSE <<"Ok", matches(m[2], self)>> :
            m \in {TypeCompiledNew(ty)}})

\* the text of the position: arg_name is <<>> for None and <<x>> for Some(x)
PositionText(arg_name) ==
    IF arg_name = <<>> THEN <<"r", "e", "t", "u", "r", "n", " ", "t", "y", "p", "e">>
    ELSE <<"a", "r", "g", "u", "m", "e", "n", "t", " ",
        Backquote>> \o arg_name[1] \o <<Backquote>>

\* a mismatch that is always reported for the return type
check_type_errorReturnType(value, ty, arg_name) ==
    <<"Err", <<"TypeAnnotationMismatch", to_str(value), get_type(value), to_str(ty),
               PositionText(<<>>)>> >>
\* Value::check_type_error
check_type_error(value, ty, arg_name) ==
    <<"Err", <<"TypeAnnotationMismatch", to_str(value), get_type(value), to_str(ty),
               PositionText(arg_name)>> >>

\* Value::check_type
check_type(self, ty, arg_name) ==
    Only({IF r[1] = "Err" THEN r
          ELSE IF r[2] THEN <<"Ok", <<>> >>
          ELSE check_type_error(self, ty, arg_name) :
            r \in {is_type(self, ty)}})

\* Value::check_type_compiled
check_type_compiled(self, ty, ty_compiled, arg_name) ==
    IF matches(ty_compiled, self) THEN <<"Ok", <<>> >>
    ELSE check_type_error(self, ty, arg_name)

(***************************************************************************)
(* The matcher's life: an annotation value is compiled once, and the       *)
(* matcher is then tested against runtime values any number of times.  op  *)
(* is the compilation (its annotation and its result), call the last test. *)
(* A behaviour is followed up to its first check_type or                   *)
(* check_type_compiled, which comes after any number of tests.             *)
(***************************************************************************)
VNone == <<"none">>
VInt(n) == <<"int", n>>
VBool(b) == <<"bool", b>>
VStr(s) == <<"string", s>>
VList(vs) == <<"list", vs>>
VTuple(vs) == <<"tuple", vs>>
VDict(kvs) == <<"dict", kvs>>
\* the function is_type, the function bool, whose attribute type is "bool", and
\* a function whose attribute type is no string
VIsType == <<"function", <<"i", "s", "_", "t", "y", "p", "e">>, <<>> >>
VBoolFn == <<"function", StrBool, <<VStr(StrBool)>> >>
VOddFn == <<"function", <<"o", "d", "d">>, <<VInt(1)>> >>

\* the runtime values that are tested
Values ==
    {VNone, VInt(1), VBool(TRUE), VStr(StrX), VStr(StrEmpty), VIsType,
     VList(<<>>), VList(<<VInt(1)>>), VList(<<VInt(1), VStr(StrX)>>),
     VList(<<VInt(1), VInt(2), VNone>>), VList(<<VList(<<VInt(1)>>)>>),
     VList(<<VBool(TRUE)>>),
     VTuple(<<>>), VTuple(<<VInt(1)>>), VTuple(<<VInt(1), VStr(StrX)>>),
     VTuple(<<VStr(StrX), VNone>>), VTuple(<<VInt(1), VStr(StrX), VNone>>),
     VDict(<<>>), VDict(<< <<VStr(StrX), VInt(1)>> >>),
     VDict(<< <<VStr(StrX), VStr(StrX)>> >>), VDict(<< <<VInt(1), VInt(1)>> >>),
     VDict(<< <<VStr(StrX), VInt(1)>>, <<VInt(1), VInt(2)>> >>),
     VDict(<< <<VStr(StrX), VInt(1)>>, <<VStr(StrEmpty), VNone>> >>)}

\* the annotations that are no container
BaseAnnotations ==
    {VNone} \cup {VStr(s) : s \in {StrEmpty, StrUnderscore, StrUnderscoreA, StrInt, StrBool,
                                   StrString, StrStr, StrList, StrFunction}}

\* the values that are no annotation
BadAnnotations == {VInt(1), VBool(TRUE), VIsType, VBoolFn, VOddFn, VList(<<>>), VDict(<<>>)}

\* the annotation values that are compiled
Annotations ==
    BaseAnnotations \cup BadAnnotations
    \cup {VList(<<t>>) : t \in BaseAnnotations \cup BadAnnotations
                               \cup {VList(<<VStr(StrInt)>>),
                                     VList(<<VStr(StrInt), VStr(StrString)>>)}}
    \cup {VList(<<t1, t2>>) : t1, t2 \in BaseAnnotations \cup {VInt(1), VList(<<VStr(StrInt)>>)}}
    \cup {VList(<<t1, t2, t3>>) :
            t1, t2, t3 \in {VNone, VStr(StrInt), VStr(StrString), VStr(StrStr), VBoolFn}}
    \cup {VList(<<VStr(StrInt), VStr(StrBool), VNone, VList(<<VStr(StrUnderscoreA)>>)>>)}
    \cup {VTuple(<<>>), VTuple(<<VStr(StrInt)>>), VTuple(<<VTuple(<<>>)>>),
          VTuple(<<VStr(StrInt), VStr(StrString), VNone>>)}
    \cup {VTuple(<<t1, t2>>) : t1, t2 \in {VNone, VStr(StrInt), VStr(StrString), VStr(StrEmpty),
                                           VInt(1)}}
    \cup {VDict(<< <<k, v>> >>) : k, v \in {VStr(StrEmpty), VStr(StrUnderscoreA), VStr(StrInt),
                                            VStr(StrString), VInt(1)}}
    \cup {VDict(<< <<VInt(1), VStr(StrString)>>, <<VInt(2), VStr(StrBool)>> >>)}

\* the names of the parameter that is checked: None, and Some("x")
ArgNames == {<<>>, <<StrX>>}

\* no check has been made yet
NoCheckYet == call.name \in {"none", "matches"}

\* TypeCompiled::new(ty, heap)
DoNew(ty) ==
    /\ op = NoOp
    /\ op' = [name |-> "new", arg |-> ty, res |-> TypeCompiledNew(ty)]
    /\ UNCHANGED <<xs, oracle, types, errors, approximoations, call>>

\* ty_compiled.matches(value) on the compiled matcher
DoMatches(value) ==
    /\ NoCheckYet
    /\ op.name = "new"
    /\ op.res[1] = "Ok"
    /\ call' = [name |-> "matches", arg |-> value, res |-> matches(op.res[2], value),
                errors |-> errors, approximoations |-> approximoations]
    /\ UNCHANGED <<xs, op, oracle, types, errors, approximoations>>

\* value.check_type(ty, arg_name, heap) with the annotation that was compiled
DoCheckType(value, arg_name) ==
    /\ NoCheckYet
    /\ op.name = "new"
    /\ call' = [name |-> "check_type", arg |-> <<value, arg_name>>,
                res |-> check_type(value, op.arg, arg_name),
                errors |-> errors, approximoations |-> approximoations]
    /\ UNCHANGED <<xs, op, oracle, types, errors, approximoations>>

\* value.check_type_compiled(ty, ty_compiled, arg_name) with the compiled matcher
DoCheckTypeCompiled(value, arg_name) ==
    /\ NoCheckYet
    /\ op.name = "new"
    /\ op.res[1] = "Ok"
    /\ call' = [name |-> "check_type_compiled", arg |-> <<value, arg_name>>,
                res |-> check_type_compiled(value, op.arg, op.res[2], arg_name),
                errors |-> errors, approximoations |-> approximoations]
    /\ UNCHANGED <<xs, op, oracle, types, errors, approximoations>>

InitMatcher ==
    /\ xs = <<>>
    /\ op = NoOp
    /\ oracle = "unknown"
    /\ types = TypesEnv
    /\ errors = <<>>
    /\ approximoations = <<>>
    /\ call = NoCall

NextMatcher ==
    \/ \E ty \in Annotations : DoNew(ty)
    \/ \E value \in Values : DoMatches(value)
    \/ \E value \in Values, arg_name \in ArgNames : DoCheckType(value, arg_name)
    \/ \E value \in Values, arg_name \in ArgNames : DoCheckTypeCompiled(value, arg_name)

SpecMatcher == InitMatcher /\ [][NextMatcher]_vars

(***************************************************************************)
(* The order of the custom types.  The vector holds three custom types,    *)
(* and two of them are compared, as a sort of the vector does.             *)
(***************************************************************************)
\* the custom types that are compared: structs and functions
Customs ==
    { TyStruct(<<>>, FALSE), TyStruct(<<>>, TRUE),
      TyStruct(<< <<"a", TyInt>> >>, FALSE),
      TyStruct(<< <<"a", TyInt>> >>, TRUE),
      TyStruct(<< <<"a", TyString>> >>, TRUE),
      TyStruct(<< <<"a", TyInt>>, <<"int", TyInt>> >>, FALSE),
      TyStruct(<< <<"bool", TyAny>> >>, FALSE),
      TyFunction("", <<>>, TyInt),
      TyFunction("", <<ParamPosOnly(TyInt)>>, TyInt),
      TyFunction("", <<ParamArgs(TyAny), ParamKwargs(TyAny)>>, TyAny),
      TyFunction("int", <<ParamPosOnly(TyInt)>>, TyInt),
      TyFunction("", <<>>, TyStruct(<<>>, TRUE)) }

\* self.cmp(other) and self == other on two custom types of the vector
DoCustomCmp(i, j) ==
    /\ op = NoOp
    /\ i \in 1..Len(xs) /\ j \in 1..Len(xs)
    /\ Variant(xs[i]) = "Custom" /\ Variant(xs[j]) = "Custom"
    /\ op' = [name |-> "cmp", arg |-> <<xs[i], xs[j]>>,
              res |-> <<CustomCmp(Payload(xs[i]), Payload(xs[j])),
                        CustomEq(Payload(xs[i]), Payload(xs[j]))>>]
    /\ UNCHANGED <<xs, oracle, types, errors, approximoations, call>>

InitCmp ==
    /\ xs \in {<<a, b, c>> : a, b, c \in Customs}
    /\ op = NoOp
    /\ oracle = "none"
    /\ types = <<>>
    /\ errors = <<>>
    /\ approximoations = <<>>
    /\ call = NoOp

NextCmp == \E i, j \in 1..3 : DoCustomCmp(i, j)

SpecCmp == InitCmp /\ [][NextCmp]_vars

(***************************************************************************)
(* Ty::intersects on two given types.  The vector holds the two types, and *)
(* intersects is asked of them under one of the oracles.                   *)
(***************************************************************************)
\* the types that are no union
IntersectAtoms ==
    Elems \cup
    { TyBool, TyOfName("tuple"), TyOfName("list"),
      TyIter(TyInt), TyIter(TyString), TyIter(TyAny),
      TyList(TyList(TyInt)), TyList(TyTuple(<<TyInt>>)), TyList(TyNever),
      TyDict(TyInt, TyString), TyDict(TyString, TyInt),
      TyTuple(<<>>), TyTuple(<<TyString>>), TyTuple(<<TyInt, TyString>>),
      TyTuple(<<TyInt, TyInt>>), TyTuple(<<TyString, TyAny>>),
      TyFunction("", <<ParamPosOnly(TyInt)>>, TyInt) }

\* the types intersects is asked of: the atoms and unions of two of them
IntersectTypes ==
    IntersectAtoms \cup
    { Unions(<<a, b>>) :
        a, b \in { TyInt, TyString, TyBool, TyList(TyInt), TyList(TyString), TyIter(TyInt),
                   TyTuple(<<TyInt>>), TyTuple(<<TyString, TyInt>>), TyDict(TyInt, TyInt),
                   TyOfName("tuple"), TyStruct(<< <<"a", TyInt>> >>, FALSE),
                   TyOfName("function") } }

InitIntersects ==
    /\ xs \in {<<a, b>> : a, b \in IntersectTypes}
    /\ op = NoOp
    /\ oracle = "none"
    /\ types = <<>>
    /\ errors = <<>>
    /\ approximoations = <<>>
    /\ call = NoOp

NextIntersects == \E o \in Oracles : DoIntersects(o) /\ CtxUnchanged

SpecIntersects == InitIntersects /\ [][NextIntersects]_vars

(***************************************************************************)
(* A walk: a sequence of operations on one TypingContext.  An operation    *)
(* pushes its errors and its approximations onto the two vectors of the    *)
(* context, in the order it has made them.  An operation starts while the  *)
(* context holds fewer than MaxWalk diagnostics.                           *)
(***************************************************************************)
MaxWalk == 2

\* the expressions of the walk: no diagnostic, one error, two errors, an
\* approximation
WalkExprs ==
    {IntLit, Slot1, BadGlobal, <<"Op", BadGlobal, "Add", BadGlobal>>,
     <<"Op", Slot1, "Add", <<"Literal", "String">> >>, <<"Identifier", "x", <<"None">> >>}

\* the bind expressions of the walk
WalkBindExprs ==
    {<<"AssignOp", <<"Tuple", <<IdBound, IdBound>> >>, "Add", IntLit>>,
     <<"AssignOp", IdBound, "Add", IntLit>>,
     <<"SetIndex", 1, <<"Literal", "String">>, <<"Expr", IntLit>> >>,
     <<"SetIndex", 2, IntLit, <<"Expr", BadGlobal>> >>,
     <<"ListAppend", 1, BadGlobal>>,
     <<"Iter", <<"Expr", IntLit>> >>}

\* an operation that leaves only its own diagnostics in the context
PushedOnEmptied(name, arg, r) ==
    /\ errors' = r.errs
    /\ approximoations' = r.apps
    /\ call' = [name |-> name, arg |-> arg, res |-> r.ty,
                errors |-> errors, approximoations |-> approximoations]
    /\ UNCHANGED <<xs, op, oracle, types>>

\* the borrow_mut().push(..) of the errors and of the approximations an
\* operation makes, r being its outcome
Pushed(name, arg, r) ==
    /\ errors' = errors \o r.errs
    /\ approximoations' = approximoations \o r.apps
    /\ call' = [name |-> name, arg |-> arg, res |-> r.ty,
                errors |-> errors, approximoations |-> approximoations]
    /\ UNCHANGED <<xs, op, oracle, types>>

\* the next operation of the walk may start
WalkGoesOn == Len(errors) + Len(approximoations) < MaxWalk

\* ctx.expression_type(x)
WalkExpressionType(x) ==
    /\ WalkGoesOn
    /\ Pushed("expression_type", x, expression_type(oracle, types, x, <<>>))

\* ctx.expression_bind_type(x)
WalkExpressionBindType(x) ==
    /\ WalkGoesOn
    /\ Pushed("expression_bind_type", x, expression_bind_type(oracle, types, x, <<>>))

\* ctx.validate_call(fun, args, span)
WalkValidateCall(fun, args) ==
    /\ WalkGoesOn
    /\ Pushed("validate_call", <<fun, args>>, validate_call(oracle, fun, args, <<>>))

\* ctx.validate_type(got, require, span)
WalkValidateType(got, require) ==
    /\ WalkGoesOn
    /\ Pushed("validate_type", <<got, require>>, validate_type(oracle, got, require, <<>>))

InitWalk ==
    /\ xs = <<>>
    /\ op = NoOp
    /\ oracle \in Oracles
    /\ types \in {TypesEnv, <<TyAny, TyInt>>}
    /\ errors = <<>>
    /\ approximoations = <<>>
    /\ call = NoCall

NextWalk ==
    \/ \E x \in WalkExprs : WalkExpressionType(x)
    \/ \E x \in WalkBindExprs : WalkExpressionBindType(x)
    \/ \E fun \in {HashFn, TyInt}, args \in {<<>>, << <<"Pos", TyString>> >>} :
            WalkValidateCall(fun, args)
    \/ \E got \in {TyInt, TyList(TyInt)}, require \in {TyInt, TyString} :
            WalkValidateType(got, require)

SpecWalk == InitWalk /\ [][NextWalk]_vars

(***************************************************************************)
(* Context::resolve_load of bin/eval.rs.  A load path is a string, a       *)
(* sequence of one-character strings; a file system path is the sequence   *)
(* of its components, all paths being absolute, so that <<>> is the root   *)
(* directory.  An Option is <<>> for None and <<v>> for Some(v).  The file *)
(* system is the set of the paths that exist.                              *)
(***************************************************************************)
StrSlashes == <<"/", "/">>
StrColon == <<":">>
StrAt == "@"
StrFileScheme == <<"f", "i", "l", "e", ":", "/", "/">>

\* the positions at which pat occurs in s
Occurrences(s, pat) ==
    {i \in 1..(Len(s) - Len(pat) + 1) : SubSeq(s, i, i + Len(pat) - 1) = pat}

FirstOccurrence(s, pat) ==
    CHOOSE i \in Occurrences(s, pat) : \A j \in Occurrences(s, pat) : i <= j

\* str::split_once: the text before and after the first occurrence
split_once(s, pat) ==
    IF Occurrences(s, pat) = {}
    THEN <<>>
    ELSE << <<SubSeq(s, 1, FirstOccurrence(s, pat) - 1),
              SubSeq(s, FirstOccurrence(s, pat) + Len(pat), Len(s))>> >>

\* str::strip_prefix('@'), with the fall back to the text itself
WithoutAt(repository) ==
    IF repository # <<>> /\ repository[1] = StrAt THEN Tail(repository) ELSE repository

\* Path::components of a text joined to an absolute base: the empty components
\* and the components `.` vanish
RECURSIVE Components(_)
Components(s) ==
    IF s = <<>> \/ s = <<".">>
    THEN <<>>
    ELSE IF split_once(s, <<"/">>) = <<>>
         THEN <<s>>
         ELSE IF split_once(s, <<"/">>)[1][1] \in {<<>>, <<".">>}
              THEN Components(split_once(s, <<"/">>)[1][2])
              ELSE <<split_once(s, <<"/">>)[1][1]>> \o Components(split_once(s, <<"/">>)[1][2])

\* Path::join: an absolute text replaces the base
PathJoin(base, s) ==
    IF s # <<>> /\ s[1] = "/" THEN Components(s) ELSE base \o Components(s)

\* Path::parent: the root directory has none
PathParent(p) == IF p = <<>> THEN <<>> ELSE <<SubSeq(p, 1, Len(p) - 1)>>

IsPathPrefix(root, p) == Len(root) <= Len(p) /\ SubSeq(p, 1, Len(root)) = root

LspUrlFile(p) == <<"File", p>>
LspUrlStarlark(p) == <<"Starlark", p>>

\* BuildSystem::repository_for_path: the remote repository that holds the path
repository_for_path(bs, p) ==
    IF \E r \in bs.repositories : IsPathPrefix(r[2], p)
    THEN <<CHOOSE r \in bs.repositories : IsPathPrefix(r[2], p)>>
    ELSE <<>>

\* BuildSystem::repository_path: the root of the remote repository of that name
repository_path(bs, repository) ==
    IF \E r \in bs.repositories : r[1] = repository
    THEN <<(CHOOSE r \in bs.repositories : r[1] = repository)[2]>>
    ELSE <<>>

ResolveOk(v) == <<"Ok", v>>
ResolveErr(e) == <<"Err", e>>

\* resolve_root that knows the workspace root only
resolve_rootWorkspaceOnly(repository, path, file, workspace_root, build_system) ==
    ResolveOk(workspace_root)

\* the root a path with a repository part is resolved from: Ok(Option) or Err
resolve_root(repository, original_path, current_file, workspace_root, build_system) ==
    IF repository = <<>> /\ current_file[1] = "File" /\ build_system # <<>>
    THEN IF repository_for_path(build_system[1], current_file[2]) # <<>>
         THEN ResolveOk(<<repository_for_path(build_system[1], current_file[2])[1][2]>>)
         ELSE ResolveOk(workspace_root)
    ELSE IF repository = <<>>
    THEN ResolveOk(workspace_root)
    ELSE IF build_system # <<>>
    THEN IF build_system[1].root_repository_name = <<repository>>
         THEN ResolveOk(workspace_root)
         ELSE IF repository_path(build_system[1], repository) # <<>>
              THEN ResolveOk(repository_path(build_system[1], repository))
              ELSE ResolveErr(<<"UnknownRepository", original_path, repository>>)
    ELSE ResolveErr(<<"MissingBuildSystem", original_path>>)

\* the last match of the branch of a path with a repository part
ResolveFromRoot(original_path, path, root) ==
    IF split_once(path, StrColon) # <<>> /\ root # <<>>
    THEN ResolveOk(<<PathJoin(root[1], split_once(path, StrColon)[1][1]),
                     <<split_once(path, StrColon)[1][2]>> >>)
    ELSE IF split_once(path, StrColon) = <<>> /\ root # <<>>
    THEN ResolveOk(<<PathJoin(root[1], path), <<>> >>)
    ELSE IF split_once(path, StrColon) # <<>>
    THEN ResolveErr(<<"MissingWorkspaceRoot", original_path>>)
    ELSE ResolveErr(<<"CannotParsePath", original_path>>)

\* the branch of a path with a repository part
ResolveInRepository(original_path, parts, current_file, workspace_root, build_system) ==
    IF resolve_root(WithoutAt(parts[1]), original_path, current_file, workspace_root,
                    build_system)[1] = "Err"
    THEN resolve_root(WithoutAt(parts[1]), original_path, current_file, workspace_root,
                      build_system)
    ELSE ResolveFromRoot(original_path, parts[2],
             resolve_root(WithoutAt(parts[1]), original_path, current_file, workspace_root,
                          build_system)[2])

\* the branch of a path relative to the current file
ResolveRelative(path, parts, current_file) ==
    IF current_file[1] = "File"
    THEN IF PathParent(current_file[2]) # <<>>
         THEN ResolveOk(<<PathJoin(PathParent(current_file[2])[1], parts[1]), <<parts[2]>> >>)
         ELSE ResolveErr(<<"MissingCurrentFilePath", path>>)
    ELSE ResolveErr(<<"WrongScheme", StrFileScheme, current_file>>)

\* Context::resolve_folder: Ok(<<folder, resolved_filename>>) or Err
resolve_folder(path, current_file, workspace_root, build_system) ==
    IF split_once(path, StrSlashes) # <<>>
    THEN ResolveInRepository(path, split_once(path, StrSlashes)[1], current_file,
                             workspace_root, build_system)
    ELSE IF split_once(path, StrColon) # <<>>
    THEN ResolveRelative(path, split_once(path, StrColon)[1], current_file)
    ELSE ResolveErr(<<"CannotParsePath", path>>)

\* the build file names of the build system, none without a build system
BuildFileNames(build_system) ==
    IF build_system = <<>> THEN <<>> ELSE build_system[1].build_file_names

\* folder.join(name).exists(): the path is there, and it is a directory when the
\* joined text ends with a separator or with `.` (the name is empty or `.`, or it
\* ends with `/` or `/.`)
JoinExists(folder, name, files, directories) ==
    /\ PathJoin(folder, name) \in files
    /\ \/ PathJoin(folder, name) \in directories
       \/ /\ name # <<>>
          /\ name # <<".">>
          /\ name[Len(name)] # "/"
          /\ Len(name) >= 2 => SubSeq(name, Len(name) - 1, Len(name)) # <<"/", ".">>

\* the loop over the build file names: the first one that exists in the folder
RECURSIVE FirstBuildFile(_, _, _, _)
FirstBuildFile(path, folder, names, files) ==
    IF names = <<>>
    THEN ResolveErr(<<"TargetNotFound", path>>)
    ELSE IF JoinExists(folder, Head(names), files.paths, files.directories)
         THEN ResolveOk(LspUrlFile(PathJoin(folder, Head(names))))
         ELSE FirstBuildFile(path, folder, Tail(names), files)

\* resolve_load once the folder is known
ResolveInFolder(path, folder, presumed_filename, build_system, files) ==
    IF presumed_filename = <<>>
    THEN ResolveErr(<<"CannotParsePath", path>>)
    ELSE IF JoinExists(folder, presumed_filename[1], files.paths, files.directories)
         THEN ResolveOk(LspUrlFile(PathJoin(folder, presumed_filename[1])))
         ELSE FirstBuildFile(path, folder, BuildFileNames(build_system), files)

\* Context::resolve_load
resolve_load(path, current_file, workspace_root, build_system, files) ==
    IF resolve_folder(path, current_file, workspace_root, build_system)[1] = "Err"
    THEN resolve_folder(path, current_file, workspace_root, build_system)
    ELSE ResolveInFolder(path,
             resolve_folder(path, current_file, workspace_root, build_system)[2][1],
             resolve_folder(path, current_file, workspace_root, build_system)[2][2],
             build_system, files)

\* the workspace of the test cases and a remote repository

\* the names of the catalogue
NameR == <<"r">>
NameE == <<"e">>
NameW == <<"w">>
NameU == <<"u">>
NameT == <<"t">>
NameFrom == <<"f", "r", "o", "m", ".", "s", "t", "a", "r">>
NameRelative == <<"r", "e", "l", "a", "t", "i", "v", "e", ".", "s", "t", "a", "r">>
NameRoot == <<"r", "o", "o", "t", ".", "s", "t", "a", "r">>
NameSubpath == <<"s", "u", "b", "p", "a", "t", "h">>
NameBaz == <<"b", "a", "z">>
NamePkg == <<"p", "k", "g">>
NameBoth == <<"b", "o", "t", "h">>
NameBuild == <<"B", "U", "I", "L", "D">>
NameBuildBazel == <<"B", "U", "I", "L", "D", ".", "b", "a", "z", "e", "l">>
NameBuck == <<"B", "U", "C", "K">>

WorkspaceDir == <<NameR>>

RemoteDir == <<NameE>>

\* the directories of the tree
Directories ==
    { <<>>,
      <<NameR>>,
      <<NameR, NameSubpath>>,
      <<NameR, NameBaz>>,
      <<NameR, NamePkg>>,
      <<NameR, NameBoth>>,
      <<NameE>>,
      <<NameE, NamePkg>> }

\* the paths of the tree, directories and regular files
Files ==
    { <<>>,
      <<NameR>>,
      <<NameR, NameFrom>>,
      <<NameR, NameRelative>>,
      <<NameR, NameSubpath>>,
      <<NameR, NameSubpath, NameRelative>>,
      <<NameR, NameRoot>>,
      <<NameR, NameBaz>>,
      <<NameR, NameBaz, NameRoot>>,
      <<NameR, NamePkg>>,
      <<NameR, NamePkg, NameBuildBazel>>,
      <<NameR, NameBoth>>,
      <<NameR, NameBoth, NameBuild>>,
      <<NameR, NameBoth, NameBuildBazel>>,
      <<NameE>>,
      <<NameE, NameFrom>>,
      <<NameE, NameRoot>>,
      <<NameE, NamePkg>>,
      <<NameE, NamePkg, NameRoot>>,
      <<NameE, NamePkg, NameBuck>> }

LoadPaths ==
    { StrColon \o NameRelative,
      NameSubpath \o StrColon \o NameRelative,
      NameSubpath \o StrColon,
      NameFrom \o StrColon,
      <<".", "/">> \o NameSubpath \o StrColon \o NameRelative,
      StrSlashes \o StrColon \o NameRoot,
      StrSlashes \o NameBaz \o StrColon \o NameRoot,
      StrSlashes \o NameBaz,
      NameRelative,
      StrSlashes \o NameBaz \o StrColon \o NameT,
      StrSlashes \o NamePkg \o StrColon \o NameT,
      StrSlashes \o NameBoth \o StrColon \o NameT,
      NamePkg \o StrColon \o NameT,
      <<StrAt>> \o NameE \o StrSlashes \o NamePkg \o StrColon \o NameRoot,
      NameW \o StrSlashes \o NameBaz \o StrColon \o NameRoot,
      <<StrAt>> \o NameU \o StrSlashes \o NameBaz \o StrColon \o NameRoot,
      NameE \o StrSlashes \o NamePkg,
      <<"/">> \o NameE \o <<"/">> \o NamePkg \o StrColon \o NameRoot }

CurrentFiles ==
    { LspUrlFile(<<NameR, NameFrom>>),
      LspUrlFile(<<NameE, NameFrom>>),
      LspUrlFile(<<>>),
      LspUrlStarlark(<<>>) }

WorkspaceRoots == {<<>>, <<WorkspaceDir>>}

\* build systems: none, one with a root repository name and a remote repository,
\* and one with neither
BuildSystems ==
    { <<>>,
      <<[root_repository_name |-> <<NameW>>,
         repositories |-> {<<NameE, RemoteDir>>},
         build_file_names |-> <<NameBuild, NameBuildBazel>>]>>,
      <<[root_repository_name |-> <<>>,
         repositories |-> {},
         build_file_names |-> <<NameBuck>>]>> }

\* the file systems, each the paths that exist and those of them that are
\* directories: the one above, and the one without the files root.star
FileSystems ==
    { [paths |-> Files, directories |-> Directories],
      [paths |-> {f \in Files : f = <<>> \/ f[Len(f)] # NameRoot},
       directories |-> Directories] }

\* context.resolve_load(path, current_file, workspace_root) with the context's
\* build system in xs[4] and the file system in xs[5]
DoResolveLoad ==
    /\ op = NoOp
    /\ op' = [name |-> "resolve_load", arg |-> <<xs[1], xs[2], xs[3]>>,
              res |-> resolve_load(xs[1], xs[2], xs[3], xs[4], xs[5])]
    /\ UNCHANGED <<xs, oracle, types, errors, approximoations, call>>

InitLoad ==
    /\ xs \in {<<p, c, w, b, f>> : p \in LoadPaths, c \in CurrentFiles,
                                  w \in WorkspaceRoots, b \in BuildSystems,
                                  f \in FileSystems}
    /\ op = NoOp
    /\ oracle = "none"
    /\ types = <<>>
    /\ errors = <<>>
    /\ approximoations = <<>>
    /\ call = NoOp

NextLoad == DoResolveLoad

SpecLoad == InitLoad /\ [][NextLoad]_vars

(***************************************************************************)
(* The matcher beside the annotation it was compiled from.  TypeCompiled:: *)
(* new takes a Value of a heap that is not frozen, and ListRef and DictRef *)
(* are views of the lists and dicts of the program, which its statements   *)
(* a[i] = e and a.append(e) change (BindExpr::SetIndex and ListAppend of   *)
(* the checker are those statements).  xs holds the annotation value as it *)
(* is now, the tests made so far, each with its value, its result and the  *)
(* annotation as it was then, and the number of writes; op is the          *)
(* compilation, with the annotation as it was compiled, and call is the    *)
(* last test or check.                                                     *)
(***************************************************************************)
MaxTests == 2
MaxWrites == 1

\* a matcher that is compiled again from the annotation value at each use
StoredMatcherFollowsValue(ty_compiled, ty) ==
    IF TypeCompiledNew(ty)[1] = "Ok" THEN TypeCompiledNew(ty)[2] ELSE ty_compiled

\* TypeCompiled(Box<dyn TypeCompiledImpl>) at a later use: the matchers own their
\* parts and nothing of the heap is stored in them, so the matcher is the one that
\* was built, whatever the annotation value holds now
StoredMatcher(ty_compiled, ty) == ty_compiled

\* the annotation values that are held, what is written into them, and the values
\* that are tested
HeldAnnotations ==
    {VStr(StrInt), VList(<<VStr(StrInt)>>), VList(<<VStr(StrInt), VNone>>),
     VTuple(<<VStr(StrInt)>>), VDict(<< <<VStr(StrString), VStr(StrInt)>> >>)}

HeldElements == {VStr(StrInt), VStr(StrBool)}

HeldValues ==
    {VInt(1), VNone, VList(<<VInt(1)>>), VDict(<< <<VStr(StrX), VInt(1)>> >>)}

Compiled == op.name = "new" /\ op.res[1] = "Ok"

\* TypeCompiled::new(ty, heap) on the annotation value as it is now
DoCompile ==
    /\ op = NoOp
    /\ op' = [name |-> "new", arg |-> xs[1], res |-> TypeCompiledNew(xs[1])]
    /\ UNCHANGED <<xs, oracle, types, errors, approximoations, call>>

\* the statement a[i] = e of the program on an annotation that is a list
DoSetIndex(i, e) ==
    /\ Compiled
    /\ xs[3] < MaxWrites
    /\ is_list_value(xs[1])
    /\ i \in 1..Len(xs[1][2])
    /\ xs[1][2][i] # e
    /\ xs' = <<VList([xs[1][2] EXCEPT ![i] = e]), xs[2], xs[3] + 1>>
    /\ UNCHANGED <<op, oracle, types, errors, approximoations, call>>

\* the statement a.append(e) of the program on an annotation that is a list
DoListAppend(e) ==
    /\ Compiled
    /\ xs[3] < MaxWrites
    /\ is_list_value(xs[1])
    /\ xs' = <<VList(Append(xs[1][2], e)), xs[2], xs[3] + 1>>
    /\ UNCHANGED <<op, oracle, types, errors, approximoations, call>>

\* the statement a[k] = e of the program on an annotation that is a dict, for
\* the key it holds
DoSetKey(e) ==
    /\ Compiled
    /\ xs[3] < MaxWrites
    /\ is_dict_value(xs[1])
    /\ xs[1][2][1][2] # e
    /\ xs' = <<VDict(<< <<xs[1][2][1][1], e>> >>), xs[2], xs[3] + 1>>
    /\ UNCHANGED <<op, oracle, types, errors, approximoations, call>>

\* ty_compiled.matches(value) on the stored matcher
DoTest(value) ==
    /\ Compiled
    /\ Len(xs[2]) < MaxTests
    /\ \E r \in {matches(StoredMatcher(op.res[2], xs[1]), value)} :
        /\ call' = [name |-> "matches", arg |-> <<value, <<>>, xs[1]>>, res |-> r,
                    errors |-> errors, approximoations |-> approximoations]
        /\ xs' = <<xs[1], Append(xs[2], <<value, r, xs[1]>>), xs[3]>>
    /\ UNCHANGED <<op, oracle, types, errors, approximoations>>

\* value.check_type(ty, None, heap) with the annotation value as it is now
DoCheck(value) ==
    /\ Compiled
    /\ call' = [name |-> "check_type", arg |-> <<value, <<>>, xs[1]>>,
                res |-> check_type(value, xs[1], <<>>),
                errors |-> errors, approximoations |-> approximoations]
    /\ UNCHANGED <<xs, op, oracle, types, errors, approximoations>>

\* value.check_type_compiled(ty, ty_compiled, None) with the stored matcher
DoCheckCompiled(value) ==
    /\ Compiled
    /\ call' = [name |-> "check_type_compiled", arg |-> <<value, <<>>, xs[1]>>,
                res |-> check_type_compiled(value, xs[1],
                                            StoredMatcher(op.res[2], xs[1]), <<>>),
                errors |-> errors, approximoations |-> approximoations]
    /\ UNCHANGED <<xs, op, oracle, types, errors, approximoations>>

InitSnapshot ==
    /\ xs \in {<<ty, <<>>, 0>> : ty \in HeldAnnotations}
    /\ op = NoOp
    /\ oracle = "unknown"
    /\ types = TypesEnv
    /\ errors = <<>>
    /\ approximoations = <<>>
    /\ call = NoCall

NextSnapshot ==
    \/ DoCompile
    \/ \E i \in 1..3, e \in HeldElements : DoSetIndex(i, e)
    \/ \E e \in HeldElements : DoListAppend(e)
    \/ \E e \in HeldElements : DoSetKey(e)
    \/ \E value \in HeldValues : DoTest(value)
    \/ \E value \in HeldValues : DoCheck(value)
    \/ \E value \in HeldValues : DoCheckCompiled(value)

SpecSnapshot == InitSnapshot /\ [][NextSnapshot]_vars

(***************************************************************************)
(* Helpers of the properties.                                              *)
(***************************************************************************)
\* every rearrangement of a vector
Permutations(v) ==
    LET n == Len(v)
        bij == {f \in [1..n -> 1..n] : \A i, j \in 1..n : f[i] = f[j] => i = j}
    IN {[i \in 1..n |-> v[f[i]]] : f \in bij}

\* the vectors that repeat elements of v: one element once more at any place,
\* and the whole vector twice
Duplications(v) ==
    {SubSeq(v, 1, j) \o <<v[i]>> \o SubSeq(v, j + 1, Len(v)) :
        i \in 1..Len(v), j \in 0..Len(v)} \cup {v \o v}

IsUnion(t) == Variant(t) = "Union"
IsCustom(t) == Variant(t) = "Custom"

\* strictly ascending in the order of Ty
StrictlyAscending(v) == \A i \in 1..(Len(v) - 1) : TyCmp(v[i], v[i + 1]) < 0

PairwiseDistinct(v) == \A i, j \in 1..Len(v) : v[i] = v[j] => i = j

Count(v, P(_)) == Len(SelectSeq(v, P))

\* the documented shape of a union: two or more alternatives, all distinct,
\* ascending, none a Union, Never or Any
NormalUnion(t) ==
    /\ Len(Payload(t)) >= 2
    /\ PairwiseDistinct(Payload(t))
    /\ StrictlyAscending(Payload(t))
    /\ \A i \in 1..Len(Payload(t)) :
          Variant(Payload(t)[i]) \notin {"Union", "Never", "Any"}

\* every Union inside a type (the type itself included) is in normal form
RECURSIVE AllUnionsNormal(_)
AllUnionsNormal(t) ==
    CASE Variant(t) \in {"Never", "Any", "Name"} -> TRUE
      [] Variant(t) \in {"Iter", "List"} -> AllUnionsNormal(Payload(t))
      [] Variant(t) \in {"Tuple", "Dict"} ->
            \A i \in 1..Len(Payload(t)) : AllUnionsNormal(Payload(t)[i])
      [] Variant(t) = "Union" ->
            /\ NormalUnion(t)
            /\ \A i \in 1..Len(Payload(t)) : AllUnionsNormal(Payload(t)[i])
      [] Variant(t) = "Custom" ->
            IF Payload(t)[1] = StructTypeName
            THEN \A i \in 1..Len(Payload(t)[2][1]) :
                    AllUnionsNormal(Payload(t)[2][1][i][2])
            ELSE /\ AllUnionsNormal(Payload(t)[2][3])
                 /\ \A i \in 1..Len(Payload(t)[2][2]) :
                        AllUnionsNormal(Payload(t)[2][2][i][3])

(***************************************************************************)
(* C1: Ty::unions is invariant under permutation and under duplication of  *)
(* its input: whenever unions has been applied to a vector, applying it to *)
(* any rearrangement of that vector, or to the vector with elements        *)
(* repeated, gives the same type.                                          *)
(***************************************************************************)
C1_UnionsPermDup ==
    op.name = "unions" =>
        /\ \A p \in Permutations(op.arg) : Unions(p) = op.res
        /\ \A d \in Duplications(op.arg) : Unions(d) = op.res

\* unions has acted on three distinct types given out of order, two of them
\* lists that the sort brings together, and the result is a union
C1_Witness ==
    /\ op.name = "unions"
    /\ Len(op.arg) = 3
    /\ PairwiseDistinct(op.arg)
    /\ is_list(op.arg[1]) /\ is_list(op.arg[3]) /\ ~is_list(op.arg[2])
    /\ TyCmp(op.arg[1], op.arg[3]) > 0
    /\ IsUnion(op.res)

AllNever(v) == \A i \in 1..Len(v) : v[i] = TyNever

(***************************************************************************)
(* C2: Ty::unions returns Never for an empty input and for an input whose  *)
(* elements are all Never, returns t itself for the one-element input [t], *)
(* and returns a Union only when two or more alternatives remain.          *)
(***************************************************************************)
C2_UnionsResult ==
    op.name = "unions" =>
        /\ op.arg = <<>> => op.res = TyNever
        /\ AllNever(op.arg) => op.res = TyNever
        /\ Len(op.arg) = 1 => op.res = op.arg[1]
        /\ IsUnion(op.res) => Len(Payload(op.res)) >= 2

(***************************************************************************)
(* C3: absorption in Ty::unions: unions([Any, t]) is Any and               *)
(* unions([Never, t]) is t for every t; an input that contains Any (also   *)
(* as an alternative of an input Union) gives Any, and Never elements      *)
(* never change the result.                                                *)
(***************************************************************************)
C3_Absorption ==
    op.name = "unions" =>
        /\ Contains(FlatMapUnion(op.arg), TyAny) => op.res = TyAny
        /\ Unions(RetainNotNever(op.arg)) = op.res
        /\ \A t \in {op.arg[i] : i \in 1..Len(op.arg)} :
              /\ Unions(<<TyAny, t>>) = TyAny
              /\ Unions(<<TyNever, t>>) = t

(***************************************************************************)
(* C4: union normal form: every Union that Ty::unions returns has at least *)
(* two alternatives, pairwise distinct, in strictly ascending order of the *)
(* ordering of Ty, none of them a Union, Never or Any.                     *)
(***************************************************************************)
C4_UnionNormalForm ==
    (op.name = "unions" /\ IsUnion(op.res)) => NormalUnion(op.res)

is_dict(t) == Variant(t) = "Dict"

ElementsOf(lists) == [i \in 1..Len(lists) |-> Payload(lists[i])]
KeysOf(dicts) == [i \in 1..Len(dicts) |-> Payload(dicts[i])[1]]
ValuesOf(dicts) == [i \in 1..Len(dicts) |-> Payload(dicts[i])[2]]

(***************************************************************************)
(* C5: structural merge in Ty::unions: the List alternatives of the input  *)
(* become one List of the union of their element types, the Dict           *)
(* alternatives one Dict of the union of the keys and the union of the     *)
(* values; so a result has at most one List and at most one Dict           *)
(* alternative.                                                            *)
(***************************************************************************)
C5_StructuralMerge ==
    op.name = "unions" =>
        LET flat == FlatMapUnion(op.arg)
            lists == SelectSeq(flat, is_list)
            dicts == SelectSeq(flat, is_dict)
            alts == iter_union(op.res)
        IN /\ Count(alts, is_list) <= 1
           /\ Count(alts, is_dict) <= 1
           /\ (lists # <<>> /\ ~Contains(flat, TyAny)) =>
                 Contains(alts, TyList(Unions(ElementsOf(lists))))
           /\ (dicts # <<>> /\ ~Contains(flat, TyAny)) =>
                 Contains(alts, TyDict(Unions(KeysOf(dicts)), Unions(ValuesOf(dicts))))
           /\ \A i, j \in 1..Len(lists) :
                 Unions(<<lists[i], lists[j]>>)
                    = TyList(Unions(<<Payload(lists[i]), Payload(lists[j])>>))

\* unions has merged two lists of different element types, kept apart in the
\* input by a name, into one list of a union
C5_Witness ==
    /\ op.name = "unions"
    /\ Len(op.arg) = 3
    /\ is_list(op.arg[1]) /\ Variant(op.arg[2]) = "Name" /\ is_list(op.arg[3])
    /\ IsUnion(op.res)
    /\ \E i \in 1..Len(Payload(op.res)) :
          is_list(Payload(op.res)[i]) /\ IsUnion(Payload(Payload(op.res)[i]))

\* what the source gives for a type that is not a union
IndexedPlain(t, i) ==
    CASE t = TyAny -> TyAny
      [] t = TyNever -> TyNever
      [] is_list(t) -> Payload(t)
      [] Variant(t) = "Tuple" ->
            IF i + 1 \in DOMAIN Payload(t) THEN Payload(t)[i + 1] ELSE TyNever
      [] OTHER -> TyAny

(***************************************************************************)
(* C6: Ty::indexed(i): Any gives Any, Never gives Never, List(t) gives t,  *)
(* Tuple(xs) gives xs[i] in range and Never out of range, a Union gives    *)
(* the union of what each alternative gives, every other type gives Any.   *)
(***************************************************************************)
C6_Indexed ==
    op.name = "indexed" =>
        LET t == op.arg[1]
            i == op.arg[2]
        IN IF IsUnion(t)
           THEN op.res = Unions([k \in 1..Len(Payload(t)) |-> IndexedPlain(Payload(t)[k], i)])
           ELSE op.res = IndexedPlain(t, i)

\* indexed has acted on a union of tuples of which only some have the index
C6_Witness ==
    /\ op.name = "indexed"
    /\ IsUnion(op.arg[1])
    /\ \A k \in 1..Len(Payload(op.arg[1])) : Variant(Payload(op.arg[1])[k]) = "Tuple"
    /\ \E k \in 1..Len(Payload(op.arg[1])) :
          Len(Payload(Payload(op.arg[1])[k])) <= op.arg[2]
    /\ \E k \in 1..Len(Payload(op.arg[1])) :
          Len(Payload(Payload(op.arg[1])[k])) > op.arg[2]
    /\ op.res = TyInt

(***************************************************************************)
(* C7: intersection permissiveness: with every oracle, Any and Never       *)
(* intersect every type, on either side.                                   *)
(***************************************************************************)
C7_IntersectsAnyNever ==
    op.name = "intersects" =>
        /\ (op.arg[1] \in {TyAny, TyNever} \/ op.arg[2] \in {TyAny, TyNever}) => op.res
        /\ \A t \in {op.arg[1], op.arg[2]} : \A o \in Oracles :
              /\ Intersects(TyAny, t, o) /\ Intersects(t, TyAny, o)
              /\ Intersects(TyNever, t, o) /\ Intersects(t, TyNever, o)

\* intersects has answered true for Never against a type that no other type
\* of the catalogue intersects under the same oracle
C7_Witness ==
    /\ op.name = "intersects"
    /\ op.arg[1] = TyNever
    /\ IsUnion(op.arg[2])
    /\ ~Intersects(TyInt, op.arg[2], op.arg[3])
    /\ op.res

(***************************************************************************)
(* Helpers of the properties of the checking pass.                          *)
(***************************************************************************)
\* what the last operation appended to the two lists
NewErrors == SubSeq(errors, Len(call.errors) + 1, Len(errors))
NewApproximations ==
    SubSeq(approximoations, Len(call.approximoations) + 1, Len(approximoations))

\* the last operation left the lists as they were, but for what it appended
OnlyAppended ==
    /\ Len(errors) >= Len(call.errors)
    /\ SubSeq(errors, 1, Len(call.errors)) = call.errors
    /\ Len(approximoations) >= Len(call.approximoations)
    /\ SubSeq(approximoations, 1, Len(call.approximoations)) = call.approximoations

\* the results of the lookup on each alternative of a union, in order
AlternativeResults(t, attr, o) ==
    [i \in 1..Len(Payload(t)) |-> Attribute(Payload(t)[i], attr, o).res]

\* the types of the results that are Ok, in order
OkTypes(results) ==
    [i \in 1..Len(SelectSeq(results, LAMBDA r : r[1] = "Ok")) |->
        SelectSeq(results, LAMBDA r : r[1] = "Ok")[i][2]]

(***************************************************************************)
(* C8: Ty::attribute gives no error for the oracle's "don't know": on a     *)
(* type that is not Any, Never or a Union it is then Ok(Any) and exactly    *)
(* one approximation, of the category "oracle.attribute", is appended; on   *)
(* Any it is Ok(Any) and on Never Ok(Never), under every oracle, and        *)
(* nothing is recorded.  A union of alternatives the oracle does not know   *)
(* is Ok as well.                                                           *)
(***************************************************************************)
C8_AttributeDontKnow ==
    call.name = "attribute" =>
        /\ OnlyAppended
        /\ NewErrors = <<>>
        /\ is_any(call.arg[1]) => call.res = <<"Ok", TyAny>> /\ NewApproximations = <<>>
        /\ is_never(call.arg[1]) => call.res = <<"Ok", TyNever>> /\ NewApproximations = <<>>
        /\ ( /\ Variant(call.arg[1]) \notin {"Any", "Never", "Union"}
             /\ OracleAttribute(oracle, call.arg[1], call.arg[2]) = <<"None">> )
           => /\ call.res = <<"Ok", TyAny>>
              /\ Len(NewApproximations) = 1
              /\ NewApproximations[1].category = "oracle.attribute"
              /\ NewApproximations[1].message = call.arg
        /\ ( /\ IsUnion(call.arg[1])
             /\ \A i \in 1..Len(Payload(call.arg[1])) :
                    OracleAttribute(oracle, Payload(call.arg[1])[i], call.arg[2]) = <<"None">> )
           => /\ call.res[1] = "Ok"
              /\ Len(NewApproximations) = Len(Payload(call.arg[1]))

\* the oracle did not know the attribute of a list, and the lookup is Ok(Any)
\* with one approximation
C8_Witness ==
    /\ call.name = "attribute"
    /\ Variant(call.arg[1]) = "List"
    /\ OracleAttribute(oracle, call.arg[1], call.arg[2]) = <<"None">>
    /\ call.res = <<"Ok", TyAny>>
    /\ Len(NewApproximations) = 1

(***************************************************************************)
(* C9: the attribute of a union is Err exactly when the lookup fails on     *)
(* every alternative; otherwise it is Ok of the unions of the results of    *)
(* the alternatives it succeeds on.                                         *)
(***************************************************************************)
C9_UnionAttribute ==
    (call.name = "attribute" /\ IsUnion(call.arg[1])) =>
        /\ call.res = <<"Err">> <=>
                \A i \in 1..Len(Payload(call.arg[1])) :
                    AlternativeResults(call.arg[1], call.arg[2], oracle)[i] = <<"Err">>
        /\ call.res # <<"Err">> =>
                call.res = <<"Ok", Unions(OkTypes(
                                AlternativeResults(call.arg[1], call.arg[2], oracle)))>>

\* a union with an alternative that has the attribute after one that has not:
\* the lookup is Ok, of a type that is not Any
C9_Witness ==
    /\ call.name = "attribute"
    /\ IsUnion(call.arg[1])
    /\ AlternativeResults(call.arg[1], call.arg[2], oracle)[1] = <<"Err">>
    /\ \E i \in 2..Len(Payload(call.arg[1])) :
            AlternativeResults(call.arg[1], call.arg[2], oracle)[i][1] = "Ok"
    /\ call.res[1] = "Ok"
    /\ call.res[2] # TyAny

(***************************************************************************)
(* The subexpressions of a tree, each with its span.                        *)
(***************************************************************************)
\* the expression of an argument of a call
ArgumentExpr(a) == IF a[1] = "Named" THEN a[3] ELSE a[2]

\* the children of a node, as pairs <<number, child>>
Children(x) ==
    CASE x[1] \in {"Tuple", "List"} -> {<<i, x[2][i]>> : i \in 1..Len(x[2])}
      [] x[1] \in {"Dot", "Lambda", "Not", "Minus", "Plus", "BitNot"} -> {<<1, x[2]>>}
      [] x[1] = "Call" ->
            {<<1, x[2]>>} \cup {<<i + 1, ArgumentExpr(x[3][i])>> : i \in 1..Len(x[3])}
      [] x[1] = "ArrayIndirection" -> {<<1, x[2]>>, <<2, x[3]>>}
      [] x[1] = "Slice" ->
            {<<1, x[2]>>} \cup {<<i - 1, x[i][1]>> : i \in {j \in 3..5 : x[j] # <<>>}}
      [] x[1] = "Op" -> {<<1, x[2]>>, <<2, x[4]>>}
      [] x[1] = "If" -> {<<1, x[2]>>, <<2, x[3]>>, <<3, x[4]>>}
      [] x[1] = "Dict" ->
            {<<2 * i - 1, x[2][i][1]>> : i \in 1..Len(x[2])}
            \cup {<<2 * i, x[2][i][2]>> : i \in 1..Len(x[2])}
      [] x[1] = "ListComprehension" ->
            {<<1, x[2]>>, <<2, x[3]>>} \cup {<<i + 2, x[4][i][2]>> : i \in 1..Len(x[4])}
      [] x[1] = "DictComprehension" ->
            {<<1, x[2]>>, <<2, x[3]>>, <<3, x[4]>>}
            \cup {<<i + 3, x[5][i][2]>> : i \in 1..Len(x[5])}
      [] OTHER -> {}

RECURSIVE SubExprs(_, _)
\* every subexpression of x, x included, as pairs <<span, node>>
SubExprs(x, span) ==
    {<<span, x>>} \cup UNION {SubExprs(c[2], Append(span, c[1])) : c \in Children(x)}

RECURSIVE SubExprsOutsideLambdas(_, _)
\* the subexpressions of x that are not inside the body of a lambda
SubExprsOutsideLambdas(x, span) ==
    {<<span, x>>}
    \cup IF x[1] = "Lambda" THEN {}
         ELSE UNION {SubExprsOutsideLambdas(c[2], Append(span, c[1])) : c \in Children(x)}

\* a global identifier that publishes no type and is no builtin: typing it is
\* the error UnknownBuiltin at its span
IsUnknownBuiltin(x) ==
    /\ x[1] = "Identifier"
    /\ x[3][1] = "Global"
    /\ x[3][2] = <<>>
    /\ OracleBuiltin(x[2]) = <<"Err">>

\* the spans at which the last operation reported UnknownBuiltin
UnknownBuiltinSpans ==
    {NewErrors[i].span : i \in {j \in 1..Len(NewErrors) : NewErrors[j].err[1] = "UnknownBuiltin"}}

RECURSIVE IsTy(_)
\* a well-formed Ty
IsTy(t) ==
    /\ Len(t) = 2
    /\ CASE Variant(t) \in {"Never", "Any"} -> Payload(t) = <<>>
         [] Variant(t) = "Name" -> Payload(t) \in {StrOrder[i] : i \in 1..Len(StrOrder)}
         [] Variant(t) \in {"Iter", "List"} -> IsTy(Payload(t))
         [] Variant(t) \in {"Union", "Tuple"} ->
                \A i \in 1..Len(Payload(t)) : IsTy(Payload(t)[i])
         [] Variant(t) = "Dict" -> IsTy(Payload(t)[1]) /\ IsTy(Payload(t)[2])
         [] Variant(t) = "Custom" ->
                IF Payload(t)[1] = StructTypeName
                THEN \A i \in 1..Len(Payload(t)[2][1]) : IsTy(Payload(t)[2][1][i][2])
                ELSE /\ Payload(t)[1] = FunctionTypeName
                     /\ IsTy(Payload(t)[2][3])
         [] OTHER -> FALSE

(***************************************************************************)
(* C10: expression_type is total and not fail-fast: it returns a Ty for     *)
(* every tree and only appends to the diagnostics, and it types every       *)
(* subexpression that is not inside the body of a lambda, whatever the      *)
(* subexpressions before it gave: each global of the tree that is no        *)
(* builtin, outside lambda bodies, has its UnknownBuiltin error recorded at *)
(* its span, and no other span has one.  The body of a lambda is not        *)
(* walked.                                                                  *)
(***************************************************************************)
C10_ExpressionTypeWalksOutsideLambdas ==
    call.name = "expression_type" =>
        /\ IsTy(call.res)
        /\ OnlyAppended
        /\ UnknownBuiltinSpans =
            {p[1] : p \in {q \in SubExprsOutsideLambdas(call.arg, <<>>) : IsUnknownBuiltin(q[2])}}
        /\ Len(SelectSeq(NewErrors, LAMBDA e : e.err[1] = "UnknownBuiltin"))
            = Cardinality(UnknownBuiltinSpans)

\* C10 as it is stated: every subexpression of the tree is walked, so that
\* every global that is no builtin has its error recorded, the ones in the
\* body of a lambda too
C10_ExpressionTypeWalksAll ==
    call.name = "expression_type" =>
        /\ IsTy(call.res)
        /\ UnknownBuiltinSpans =
            {p[1] : p \in {q \in SubExprs(call.arg, <<>>) : IsUnknownBuiltin(q[2])}}

\* both operands of an operator are unknown globals: the left one is an error
\* and Never, and the error of the right one is recorded after it
C10_Witness ==
    /\ call.name = "expression_type"
    /\ call.arg[1] = "Op"
    /\ IsUnknownBuiltin(call.arg[2])
    /\ IsUnknownBuiltin(call.arg[4])
    /\ Len(NewErrors) = 2
    /\ NewErrors[1].span = <<1>>
    /\ NewErrors[2].span = <<2>>
    /\ call.res = TyNever

(***************************************************************************)
(* C11.  Call validation: when the oracle rejects a call, validate_call    *)
(* appends exactly one error and the type of the call is Never; when the   *)
(* oracle accepts, nothing is appended and the type is the oracle's        *)
(* result.  A failing validate_type appends exactly one error, a           *)
(* succeeding one none, and neither changes a type of the environment.     *)
(***************************************************************************)
C11_ValidateCall ==
    /\ [](call.name = "validate_call" =>
            LET r == OracleValidateCall(oracle, call.arg[1], call.arg[2]) IN
            /\ NewApproximations = <<>>
            /\ OnlyAppended
            /\ IF r[1] = "Err"
               THEN Len(NewErrors) = 1 /\ NewErrors[1].err = r[2] /\ call.res = TyNever
               ELSE NewErrors = <<>> /\ call.res = r[2])
    /\ [](call.name = "validate_type" =>
            /\ NewApproximations = <<>>
            /\ OnlyAppended
            /\ Len(NewErrors) =
                 IF OracleValidateType(oracle, call.arg[1], call.arg[2]) THEN 0 ELSE 1)
    /\ [][call'.name \in {"validate_call", "validate_type"} => types' = types]_vars

\* a list is called: the oracle rejects, one error is appended, the type is Never
C11_Witness ==
    /\ call.name = "validate_call"
    /\ call.arg[1] = TyList(TyAny)
    /\ call.res = TyNever
    /\ Len(NewErrors) = 1
    /\ NewErrors[1].err[1] = "CallToNonCallable"

\* the type the walk gives to the child of the last expression at a span
OperandType(x, span) == expression_type(oracle, types, x, span).ty

(***************************************************************************)
(* C12.  Boolean-valued operators preserve unreachability: for ==, !=, <,  *)
(* <=, >, >=, in and not in the type of the expression is Never when the   *)
(* left or the right operand types as Never and bool otherwise, whatever   *)
(* the validation of the operator's call appended; for not x it is Never   *)
(* when x is Never and bool otherwise.                                     *)
(***************************************************************************)
C12_BoolOpsNever ==
    call.name = "expression_type" =>
        /\ (call.arg[1] = "Op" /\ call.arg[3] \in BoolBinOps) =>
                call.res = IF \/ is_never(OperandType(call.arg[2], <<1>>))
                              \/ is_never(OperandType(call.arg[4], <<2>>))
                           THEN TyNever ELSE TyBool
        /\ call.arg[1] = "Not" =>
                call.res = IF is_never(OperandType(call.arg[2], <<1>>))
                           THEN TyNever ELSE TyBool

\* an int is compared with a call of fail: only the right operand is Never,
\* and the comparison is Never
C12_Witness ==
    /\ call.name = "expression_type"
    /\ call.arg = <<"Op", IntLit, "Less", FailCall>>
    /\ call.res = TyNever

\* a comparison whose validation appended an error is still bool
C12_WitnessRejected ==
    /\ call.name = "expression_type"
    /\ call.arg[1] = "Op"
    /\ call.arg[3] \in BoolBinOps
    /\ ~is_never(OperandType(call.arg[2], <<1>>))
    /\ ~is_never(OperandType(call.arg[4], <<2>>))
    /\ NewErrors # <<>>
    /\ call.res = TyBool

\* the errors the walk of a child of the last expression appends
OperandErrors(x, span) == expression_type(oracle, types, x, span).errs

(***************************************************************************)
(* C13.  Unreachable propagation through arithmetic: when the left         *)
(* operand of an arithmetic operator types as Never, the expression types  *)
(* as Never and the operator appends no error of its own: the errors       *)
(* appended are those of the walks of the two operands, none at all for    *)
(* fail(...) + 1.                                                          *)
(***************************************************************************)
C13_NeverArithmetic ==
    (/\ call.name = "expression_type"
     /\ call.arg[1] = "Op"
     /\ call.arg[3] \in ArithBinOps
     /\ is_never(OperandType(call.arg[2], <<1>>))) =>
        /\ call.res = TyNever
        /\ NewErrors = OperandErrors(call.arg[2], <<1>>) \o OperandErrors(call.arg[4], <<2>>)
        /\ NewApproximations = <<>>
        /\ (call.arg[2] = FailCall /\ call.arg[4] = IntLit) => NewErrors = <<>>

\* fail("...") + 1 has been typed as Never
C13_Witness ==
    /\ call.name = "expression_type"
    /\ call.arg = <<"Op", FailCall, "Add", IntLit>>
    /\ call.res = TyNever
    /\ NewErrors = <<>>

(***************************************************************************)
(* C14.  Branching expressions: a and b, a or b type as Never when a is    *)
(* Never and as union2(type(a), type(b)) otherwise, which is type(a) when  *)
(* b is Never; t if c else f types as Never when c is Never and as         *)
(* union2(type(t), type(f)) otherwise.                                     *)
(***************************************************************************)
C14_Branching ==
    call.name = "expression_type" =>
        /\ (call.arg[1] = "Op" /\ call.arg[3] \in {"And", "Or"}) =>
            LET a == OperandType(call.arg[2], <<1>>)
                b == OperandType(call.arg[4], <<2>>)
            IN  /\ call.res = IF is_never(a) THEN TyNever ELSE Union2(a, b)
                /\ is_never(b) => call.res = a
        /\ call.arg[1] = "If" =>
            call.res = IF is_never(OperandType(call.arg[2], <<1>>)) THEN TyNever
                       ELSE Union2(OperandType(call.arg[3], <<2>>),
                                   OperandType(call.arg[4], <<3>>))

(***************************************************************************)
(* C15.  Unresolved identifiers degrade to Any rather than crashing: an    *)
(* identifier that was not resolved, or a binding with no entry in the     *)
(* environment, types as Any when it is read in expression_type, and no    *)
(* operation of expression_bind_type (augmented assignment, indexed set,   *)
(* append, extend) on such a target panics.                                *)
(***************************************************************************)
C15_UnresolvedIsAny ==
    /\ (call.name = "expression_type" /\ call.arg \in UnresolvedReads) =>
            call.res = TyAny /\ NewErrors = <<>>
    /\ call.name = "expression_bind_type" => call.res[1] # "Panic"

(***************************************************************************)
(* C16.  A Ty::Name is never used for a construct that has a structural    *)
(* variant: Ty::name(n) is a Ty::Name only when n is none of "list",       *)
(* "dict", "tuple", "function", "struct", "never", so that no Ty::Name      *)
(* whose name is "list", "dict" or "tuple" is created.                     *)
(***************************************************************************)
C16_NameNotStructural ==
    (call.name = "name" /\ Variant(call.res) = "Name") =>
        /\ call.arg \notin {"list", "dict", "tuple", "function", "struct", "never"}
        /\ Payload(call.res) \notin {"list", "dict", "tuple"}

\* the last test was made with the matcher compiled from the annotation ty
Tested(ty) == op.name = "new" /\ op.arg = ty /\ call.name = "matches"

\* the annotation is a string that is empty or starts with an underscore
IsWildcardAnnotation(ty) == ty[1] = "string" /\ (ty[2] = <<>> \/ ty[2][1] = "_")

(***************************************************************************)
(* C17.  Wildcard matcher: compiling the empty string, or a string that    *)
(* starts with an underscore, never fails, and the matcher matches every   *)
(* runtime value.                                                          *)
(***************************************************************************)
C17_Wildcard ==
    (op.name = "new" /\ IsWildcardAnnotation(op.arg)) =>
        /\ op.res[1] = "Ok"
        /\ call.name = "matches" => call.res = TRUE

\* the matcher of "_a" has matched a dict
C17_Witness ==
    /\ Tested(VStr(StrUnderscoreA))
    /\ call.arg = VDict(<< <<VStr(StrX), VInt(1)>> >>)
    /\ call.res = TRUE

(***************************************************************************)
(* C18 as it is stated.  Matcher round trip: the matcher compiled from the *)
(* two-element list annotation ["int", "str"] matches the int 1, matches   *)
(* the string "x", and does not match the bool true.                       *)
(***************************************************************************)
C18_RoundTrip ==
    (op.name = "new" /\ op.arg = VList(<<VStr(StrInt), VStr(StrStr)>>)) =>
        /\ op.res[1] = "Ok"
        /\ call.name = "matches" =>
            /\ call.arg = VInt(1) => call.res = TRUE
            /\ call.arg = VStr(StrX) => call.res = TRUE
            /\ call.arg = VBool(TRUE) => call.res = FALSE


(***************************************************************************)
(* C18, with the name of the string type.  The matcher compiled from       *)
(* ["int", "string"] matches 1 and "x" and does not match true; the one    *)
(* compiled from ["int", "str"] matches 1 and neither "x" nor true, since  *)
(* "str" is the name of no runtime type.                                   *)
(***************************************************************************)
C18_RoundTripString ==
    /\ (op.name = "new" /\ op.arg = VList(<<VStr(StrInt), VStr(StrString)>>)) =>
        /\ op.res[1] = "Ok"
        /\ call.name = "matches" =>
            /\ call.arg = VInt(1) => call.res = TRUE
            /\ call.arg = VStr(StrX) => call.res = TRUE
            /\ call.arg = VBool(TRUE) => call.res = FALSE
    /\ (op.name = "new" /\ op.arg = VList(<<VStr(StrInt), VStr(StrStr)>>)) =>
        /\ op.res[1] = "Ok"
        /\ call.name = "matches" =>
            /\ call.arg = VInt(1) => call.res = TRUE
            /\ call.arg = VStr(StrX) => call.res = FALSE
            /\ call.arg = VBool(TRUE) => call.res = FALSE

\* the matcher of ["int", "string"] has matched the string "x"
C18_Witness ==
    /\ Tested(VList(<<VStr(StrInt), VStr(StrString)>>))
    /\ call.arg = VStr(StrX)
    /\ call.res = TRUE

\* the matcher compiled from a valid annotation
MatcherOf(ty) == TypeCompiledNew(ty)[2]

(***************************************************************************)
(* C19.  The fast path of a list of two annotations is the general any-of: *)
(* the matcher of [t1, t2] matches a value exactly when the matcher of t1  *)
(* or the matcher of t2 matches it, which is what the general any-of       *)
(* matcher of the same alternatives gives; the matcher of a list of three  *)
(* or more annotations matches a value exactly when the matcher of at      *)
(* least one element matches it.                                           *)
(***************************************************************************)
C19_AnyOfTwoIsAnyOf ==
    (/\ op.name = "new"
     /\ op.arg[1] = "list"
     /\ Len(op.arg[2]) >= 2
     /\ op.res[1] = "Ok"
     /\ call.name = "matches") =>
        LET ts == op.arg[2]
            general == type_any_of([i \in 1..Len(ts) |-> MatcherOf(ts[i])])
        IN  /\ call.res = (\E i \in 1..Len(ts) : matches(MatcherOf(ts[i]), call.arg))
            /\ call.res = matches(general, call.arg)
            /\ Len(ts) = 2 => op.res[2][1] = "IsAnyOfTwo"
            /\ Len(ts) > 2 => op.res[2] = general

\* the matcher of [None, "int"] has matched None, and the matcher of "int"
\* alone does not
C19_Witness ==
    /\ Tested(VList(<<VNone, VStr(StrInt)>>))
    /\ call.arg = VNone
    /\ call.res = TRUE
    /\ ~matches(MatcherOf(VStr(StrInt)), VNone)

\* a list of three annotations has been tested: only its last alternative matches
C19_WitnessGeneral ==
    /\ Tested(VList(<<VStr(StrInt), VStr(StrStr), VNone>>))
    /\ call.arg = VNone
    /\ call.res = TRUE

(***************************************************************************)
(* C20.  A list of one annotation [t]: the matcher matches a value exactly *)
(* when the value is a list and every element of it matches t, so that the *)
(* empty list matches and a value that is no list does not; when t is a    *)
(* wildcard string the elements are not iterated (the matcher is the       *)
(* is-a-list matcher) and the result is that of iterating with the         *)
(* match-anything matcher: exactly the lists match.                        *)
(***************************************************************************)
C20_ListOfOne ==
    (/\ op.name = "new"
     /\ op.arg[1] = "list"
     /\ Len(op.arg[2]) = 1
     /\ op.res[1] = "Ok"
     /\ call.name = "matches") =>
        LET t == op.arg[2][1]
            v == call.arg
        IN  /\ call.res = (/\ v[1] = "list"
                           /\ \A i \in 1..Len(v[2]) : matches(MatcherOf(t), v[2][i]))
            /\ v = VList(<<>>) => call.res = TRUE
            /\ v[1] # "list" => call.res = FALSE
            /\ IsWildcardAnnotation(t) =>
                /\ op.res[2] = type_list
                /\ call.res = matches(type_list_of(type_anything), v)
                /\ call.res = (v[1] = "list")

\* the matcher of ["int"] has rejected the list [1, 2, None]
C20_Witness ==
    /\ Tested(VList(<<VStr(StrInt)>>))
    /\ call.arg = VList(<<VInt(1), VInt(2), VNone>>)
    /\ call.res = FALSE

\* the matcher of ["_a"] has matched the list [1, "x"]
C20_WitnessWildcard ==
    /\ Tested(VList(<<VStr(StrUnderscoreA)>>))
    /\ call.arg = VList(<<VInt(1), VStr(StrX)>>)
    /\ call.res = TRUE

(***************************************************************************)
(* C21.  Tuple annotation (t0, ..., tn): the matcher matches a value       *)
(* exactly when the value is a tuple with as many components as the        *)
(* annotation and each component matches the annotation at the same        *)
(* position; a tuple of another arity and a value that is no tuple never   *)
(* match, and the empty-tuple annotation matches only the empty tuple.     *)
(***************************************************************************)
C21_TupleOf ==
    (/\ op.name = "new"
     /\ op.arg[1] = "tuple"
     /\ op.res[1] = "Ok"
     /\ call.name = "matches") =>
        LET ts == op.arg[2]
            v == call.arg
        IN  /\ call.res = (/\ v[1] = "tuple"
                           /\ Len(v[2]) = Len(ts)
                           /\ \A i \in 1..Len(ts) : matches(MatcherOf(ts[i]), v[2][i]))
            /\ v[1] # "tuple" => call.res = FALSE
            /\ (v[1] = "tuple" /\ Len(v[2]) # Len(ts)) => call.res = FALSE
            /\ ts = <<>> => call.res = (v = VTuple(<<>>))

\* the matcher of ("string", None) has matched the tuple ("x", None)
C21_Witness ==
    /\ Tested(VTuple(<<VStr(StrString), VNone>>))
    /\ call.arg = VTuple(<<VStr(StrX), VNone>>)
    /\ call.res = TRUE

\* the matcher of ("int", "string") has rejected a tuple of three components
\* whose first two match
C21_WitnessArity ==
    /\ Tested(VTuple(<<VStr(StrInt), VStr(StrString)>>))
    /\ call.arg = VTuple(<<VInt(1), VStr(StrX), VNone>>)
    /\ call.res = FALSE

\* the matcher of () has matched the empty tuple
C21_WitnessEmpty ==
    /\ Tested(VTuple(<<>>))
    /\ call.arg = VTuple(<<>>)
    /\ call.res = TRUE

\* the annotation compiles
Compiles(ty) == TypeCompiledNew(ty)[1] = "Ok"

\* the dict annotation {"string": "int"}
StringToInt == VDict(<< <<VStr(StrString), VStr(StrInt)>> >>)

(***************************************************************************)
(* C22.  Dict annotations: a dict annotation with no entry or with two or  *)
(* more entries fails to compile with the invalid type annotation error; an *)
(* annotation {k: v} of one entry compiles (k and v being annotations that *)
(* compile), and its matcher matches a value exactly when the value is a   *)
(* dict whose every key matches k and every value matches v, which is any  *)
(* dict when k and v are both wildcards.  The annotation with the key type *)
(* string and the value type int matches {"x": 1} and matches neither      *)
(* {"x": "x"} nor {1: 1}.                                                  *)
(***************************************************************************)
C22_DictAnnotation ==
    (op.name = "new" /\ op.arg[1] = "dict") =>
        LET kvs == op.arg[2]
            v == call.arg
        IN  /\ Len(kvs) # 1 =>
                /\ op.res[1] = "Err"
                /\ op.res[2][1] = "InvalidTypeAnnotation"
                /\ op.res[2][2] = collect_repr(op.arg)
            /\ (Len(kvs) = 1 /\ Compiles(kvs[1][1]) /\ Compiles(kvs[1][2])) =>
                /\ op.res[1] = "Ok"
                /\ call.name = "matches" =>
                    /\ call.res =
                        (/\ v[1] = "dict"
                         /\ \A i \in 1..Len(v[2]) :
                                /\ matches(MatcherOf(kvs[1][1]), v[2][i][1])
                                /\ matches(MatcherOf(kvs[1][2]), v[2][i][2]))
                    /\ (IsWildcardAnnotation(kvs[1][1]) /\ IsWildcardAnnotation(kvs[1][2])) =>
                            call.res = (v[1] = "dict")
            /\ (op.arg = StringToInt /\ call.name = "matches") =>
                /\ v = VDict(<< <<VStr(StrX), VInt(1)>> >>) => call.res = TRUE
                /\ v = VDict(<< <<VStr(StrX), VStr(StrX)>> >>) => call.res = FALSE
                /\ v = VDict(<< <<VInt(1), VInt(1)>> >>) => call.res = FALSE

\* the matcher of {"string": "int"} has rejected a dict whose key matches and
\* whose value does not
C22_Witness ==
    /\ Tested(StringToInt)
    /\ call.arg = VDict(<< <<VStr(StrX), VStr(StrX)>> >>)
    /\ call.res = FALSE

\* the matcher of {"string": "int"} has matched {"x": 1}
C22_WitnessMatch ==
    /\ Tested(StringToInt)
    /\ call.arg = VDict(<< <<VStr(StrX), VInt(1)>> >>)
    /\ call.res = TRUE

\* the annotation {1: "string", 2: "bool"} of two entries has failed to compile
C22_WitnessTwoEntries ==
    /\ op.name = "new"
    /\ op.arg = VDict(<< <<VInt(1), VStr(StrString)>>, <<VInt(2), VStr(StrBool)>> >>)
    /\ op.res = <<"Err", <<"InvalidTypeAnnotation",
                    <<"{", "1", ":", " ", "\"", "s", "t", "r", "i", "n", "g", "\"", ",", " ",
                      "2", ":", " ", "\"", "b", "o", "o", "l", "\"", "}">> >> >>

\* the matcher of {"": "_a"} has matched a dict of mixed keys
C22_WitnessWildcard ==
    /\ Tested(VDict(<< <<VStr(StrEmpty), VStr(StrUnderscoreA)>> >>))
    /\ call.arg = VDict(<< <<VStr(StrX), VInt(1)>>, <<VInt(1), VInt(2)>> >>)
    /\ call.res = TRUE

RECURSIVE Nested(_)
\* the annotations that TypeCompiled::new compiles inside the annotation ty
Nested(ty) ==
    CASE ty[1] = "tuple" -> {ty[2][i] : i \in 1..Len(ty[2])}
      [] ty[1] = "list" ->
            IF Len(ty[2]) = 1 /\ IsWildcardAnnotation(ty[2][1]) THEN {}
            ELSE {ty[2][i] : i \in 1..Len(ty[2])}
      [] ty[1] = "dict" ->
            IF Len(ty[2]) # 1 THEN {}
            ELSE IF IsWildcardAnnotation(ty[2][1][1]) /\ IsWildcardAnnotation(ty[2][1][2]) THEN {}
            ELSE {ty[2][1][1], ty[2][1][2]}
      [] OTHER -> {}

\* the value has an attribute type that is a string
HasStringType(ty) == ty[1] = "function" /\ ty[3] # <<>> /\ ty[3][1][1] = "string"

(***************************************************************************)
(* C23.  Errors of the compilation of an annotation: TypeCompiled::new     *)
(* fails with InvalidTypeAnnotation for the empty list, and for a value    *)
(* that is no string, None, tuple, list or dict and has no string          *)
(* attribute type; for such a value that has a string attribute type it    *)
(* fails with PerhapsYouMeant naming that string; and the compilation of a *)
(* tuple, list or dict fails whenever the compilation of one of the        *)
(* annotations inside it fails.                                            *)
(***************************************************************************)
C23_CompileErrors ==
    op.name = "new" =>
        LET ty == op.arg
            container == ty[1] \in {"tuple", "list", "dict"}
            typeLike == ty[1] \in {"string", "none"} \/ container
        IN  /\ ty = VList(<<>>) => op.res = <<"Err", <<"InvalidTypeAnnotation", <<"[", "]">> >> >>
            /\ (~typeLike /\ ~HasStringType(ty)) =>
                    op.res = <<"Err", <<"InvalidTypeAnnotation", to_str(ty)>> >>
            /\ (~typeLike /\ HasStringType(ty)) =>
                    op.res = <<"Err", <<"PerhapsYouMeant", to_str(ty), ty[3][1][2]>> >>
            /\ (container /\ \E t \in Nested(ty) : ~Compiles(t)) => op.res[1] = "Err"
            /\ ty[1] \in {"string", "none"} => op.res[1] = "Ok"

\* the function bool, given for "bool", has been refused with the hint
C23_Witness ==
    /\ op.name = "new"
    /\ op.arg = VBoolFn
    /\ op.res = <<"Err", <<"PerhapsYouMeant", StrBool, StrBool>> >>

\* the function is_type, which has no attribute type, has been refused
C23_WitnessInvalid ==
    /\ op.name = "new"
    /\ op.arg = VIsType
    /\ op.res = <<"Err", <<"InvalidTypeAnnotation", <<"i", "s", "_", "t", "y", "p", "e">> >> >>

\* a list of three annotations has been refused for its last element
C23_WitnessNested ==
    /\ op.name = "new"
    /\ op.arg = VList(<<VStr(StrInt), VNone, VBoolFn>>)
    /\ op.res = <<"Err", <<"PerhapsYouMeant", StrBool, StrBool>> >>

(***************************************************************************)
(* C24.  A compiled matcher and the annotation it was compiled from.       *)
(***************************************************************************)
\* the tests made so far: each is <<value, result, annotation at that time>>
Tests == xs[2]

C24_WitnessSameError ==
    /\ op.name = "new"
    /\ op.arg = VList(<<VStr(StrInt)>>)
    /\ call.name = "check_type_compiled"
    /\ call.arg = <<VNone, <<>>, op.arg>>
    /\ call.res[1] = "Err"
    /\ call.res = check_type(VNone, op.arg, <<>>)

\* the annotation {"string": "int"} has become {"string": "bool"}: the stored
\* matcher lets {"x": 1} pass, and check_type on the annotation refuses it
C24_WitnessStale ==
    /\ op.name = "new"
    /\ is_dict_value(op.arg)
    /\ call.name = "check_type_compiled"
    /\ call.arg[3] # op.arg
    /\ call.res[1] = "Ok"
    /\ check_type(call.arg[1], call.arg[3], call.arg[2])[1] = "Err"

\* an element was appended to the annotation ["int"], which makes it a choice of
\* two types, and the stored matcher still tests lists of int
C24_WitnessAppend ==
    /\ op.name = "new"
    /\ op.arg = VList(<<VStr(StrInt)>>)
    /\ xs[1] = VList(<<VStr(StrInt), VStr(StrBool)>>)
    /\ call.name = "matches"
    /\ call.arg[1] = VList(<<VInt(1)>>)
    /\ call.arg[3] = xs[1]
    /\ call.res = TRUE

\* a check has been made with the annotation ty, on the value v, for arg_name
Checked(name, ty, v, arg_name) ==
    op.name = "new" /\ op.arg = ty /\ call.name = name /\ call.arg = <<v, arg_name>>

(***************************************************************************)
(* C25.  Report of a mismatch at run time: check_type and                  *)
(* check_type_compiled return Ok when the value matches the annotation,    *)
(* and otherwise one TypeAnnotationMismatch error that carries the text of *)
(* the value, the name of its runtime type, the text of the annotation and *)
(* the position, which is "argument `<name>`" when a parameter name is     *)
(* given and "return type" when none is given; with an annotation that is  *)
(* not valid, check_type returns the error of the compilation and no       *)
(* mismatch.  The value 1 checked against "bool" for the parameter x is    *)
(* reported with `1`, `int`, `bool` and `x`.                               *)
(***************************************************************************)
C25_MismatchReport ==
    (op.name = "new" /\ call.name \in {"check_type", "check_type_compiled"}) =>
        LET v == call.arg[1]
            arg_name == call.arg[2]
            position ==
                IF arg_name = <<>> THEN <<"r", "e", "t", "u", "r", "n", " ", "t", "y", "p",
                    "e">>
                ELSE <<"a", "r", "g", "u", "m", "e", "n", "t", " ",
                    Backquote>> \o arg_name[1] \o <<Backquote>>
        IN  /\ op.res[1] = "Err" => call.res = op.res
            /\ (op.res[1] = "Ok" /\ matches(op.res[2], v)) => call.res = <<"Ok", <<>> >>
            /\ (op.res[1] = "Ok" /\ ~matches(op.res[2], v)) =>
                    call.res = <<"Err", <<"TypeAnnotationMismatch", to_str(v), get_type(v),
                                          to_str(op.arg), position>> >>
            /\ (op.arg = VStr(StrBool) /\ v = VInt(1) /\ arg_name = <<StrX>>) =>
                    call.res = <<"Err", <<"TypeAnnotationMismatch", <<"1">>, StrInt, StrBool,
                                          <<"a", "r", "g", "u", "m", "e", "n", "t", " ",
                                              Backquote, "x", Backquote>>>> >>

\* 1 has been checked against "bool" for the parameter x, and the message names
\* the value, its type, the annotation and the parameter
C25_Witness ==
    /\ Checked("check_type_compiled", VStr(StrBool), VInt(1), <<StrX>>)
    /\ call.res[1] = "Err"
    /\ TypingErrorDisplay(call.res[2]) =
        <<"V", "a", "l", "u", "e", " ", Backquote, "1", Backquote, " ", "o", "f", " ", "t",
            "y", "p", "e", " ", Backquote, "i", "n", "t", Backquote, " ", "d", "o", "e",
            "s", " ", "n", "o", "t", " ", "m", "a", "t", "c", "h", " ", "t", "h", "e", " ",
            "t", "y", "p", "e", " ", "a", "n", "n", "o", "t", "a", "t", "i", "o", "n", " ",
            Backquote, "b", "o", "o", "l", Backquote, " ", "f", "o", "r", " ", "a", "r",
            "g", "u", "m", "e", "n", "t", " ", Backquote, "x", Backquote>>

\* None has been checked against "int" for the return type
C25_WitnessReturn ==
    /\ Checked("check_type", VStr(StrInt), VNone, <<>>)
    /\ call.res[1] = "Err"
    /\ TypingErrorDisplay(call.res[2]) =
        <<"V", "a", "l", "u", "e", " ", Backquote, "N", "o", "n", "e", Backquote, " ", "o",
            "f", " ", "t", "y", "p", "e", " ", Backquote, "N", "o", "n", "e", "T", "y",
            "p", "e", Backquote, " ", "d", "o", "e", "s", " ", "n", "o", "t", " ", "m",
            "a", "t", "c", "h", " ", "t", "h", "e", " ", "t", "y", "p", "e", " ", "a", "n",
            "n", "o", "t", "a", "t", "i", "o", "n", " ", Backquote, "i", "n", "t",
            Backquote, " ", "f", "o", "r", " ", "r", "e", "t", "u", "r", "n", " ", "t",
            "y", "p", "e">>

\* a check against the function bool has returned the error of the compilation
C25_WitnessInvalid ==
    /\ Checked("check_type", VBoolFn, VInt(1), <<StrX>>)
    /\ call.res = <<"Err", <<"PerhapsYouMeant", StrBool, StrBool>> >>

\* Ordering::reverse
Reverse(c) == -c

(***************************************************************************)
(* C26.  The order of the custom types (TyCustom::cmp) is a total order    *)
(* that agrees with equality: for all custom types a, b and c, cmp(a, b)   *)
(* is Equal exactly when a == b, cmp(b, a) is the reverse of cmp(a, b),    *)
(* and the order is transitive; when a and b are of different              *)
(* implementation types, the result is the comparison of the names of the  *)
(* implementation types.                                                   *)
(***************************************************************************)
C26_CustomOrder ==
    op.name = "cmp" =>
        LET a == Payload(op.arg[1])
            b == Payload(op.arg[2])
            ab == op.res[1]
        IN  /\ ab \in {-1, 0, 1}
            /\ (ab = 0) = op.res[2]
            /\ op.res[2] = (a = b)
            /\ CustomCmp(b, a) = Reverse(ab)
            /\ \A i \in 1..Len(xs) :
                /\ (ab <= 0 /\ CustomCmp(b, Payload(xs[i])) <= 0) =>
                        CustomCmp(a, Payload(xs[i])) <= 0
                /\ (ab < 0 /\ CustomCmp(b, Payload(xs[i])) < 0) =>
                        CustomCmp(a, Payload(xs[i])) < 0
                /\ (ab = 0) => CustomCmp(a, Payload(xs[i])) = CustomCmp(b, Payload(xs[i]))
            /\ a[1] # b[1] => ab = StrCmp(a[1], b[1])

\* a function has been compared with a struct, and is the smaller one: the name
\* of its implementation type is
C26_Witness ==
    /\ op.name = "cmp"
    /\ op.arg = <<TyFunction("int", <<ParamPosOnly(TyInt)>>, TyInt), TyStruct(<<>>, FALSE)>>
    /\ op.res = <<-1, FALSE>>

\* two structs that differ in one field type have been compared, with a third
\* custom type above both in the vector
C26_WitnessSameType ==
    /\ op.name = "cmp"
    /\ op.arg = <<TyStruct(<< <<"a", TyInt>> >>, TRUE), TyStruct(<< <<"a", TyString>> >>, TRUE)>>
    /\ op.res = <<-1, FALSE>>
    /\ xs[3] = TyStruct(<< <<"bool", TyAny>> >>, FALSE)

\* the alternatives of a type: those of a union, and the type itself otherwise
Alternatives(t) == IF Variant(t) = "Union" THEN Payload(t) ELSE <<t>>

(***************************************************************************)
(* C29.  Ty::intersects is symmetric and, on unions, existential: for all  *)
(* types a and b and every oracle, a.intersects(b) = b.intersects(a); when *)
(* a or b is a union the result is true exactly when some alternative of a *)
(* intersects some alternative of b; two tuples intersect only when they   *)
(* have the same arity and intersect component by component; two lists     *)
(* intersect exactly when their element types intersect, and two dicts     *)
(* exactly when their key types and their value types intersect.           *)
(***************************************************************************)
C29_IntersectsSymmetric ==
    op.name = "intersects" =>
        LET a == op.arg[1]
            b == op.arg[2]
            o == op.arg[3]
        IN  /\ op.res = Intersects(b, a, o)
            /\ (Variant(a) = "Union" \/ Variant(b) = "Union") =>
                    op.res = (\E i \in 1..Len(Alternatives(a)) :
                              \E j \in 1..Len(Alternatives(b)) :
                                Intersects(Alternatives(a)[i], Alternatives(b)[j], o))
            /\ (Variant(a) = "Tuple" /\ Variant(b) = "Tuple" /\ op.res) =>
                    /\ Len(Payload(a)) = Len(Payload(b))
                    /\ \A i \in 1..Len(Payload(a)) : Intersects(Payload(a)[i], Payload(b)[i], o)
            /\ (Variant(a) = "List" /\ Variant(b) = "List") =>
                    op.res = Intersects(Payload(a), Payload(b), o)
            /\ (Variant(a) = "Dict" /\ Variant(b) = "Dict") =>
                    op.res = (/\ Intersects(Payload(a)[1], Payload(b)[1], o)
                              /\ Intersects(Payload(a)[2], Payload(b)[2], o))

\* a union and a list intersect through one alternative of the union
C29_Witness ==
    /\ op.name = "intersects"
    /\ op.arg[1] = Unions(<<TyString, TyList(TyInt)>>)
    /\ op.arg[2] = TyList(TyInt)
    /\ op.res = TRUE

\* two unions with no alternative of one intersecting one of the other
C29_WitnessDisjoint ==
    /\ op.name = "intersects"
    /\ op.arg[1] = Unions(<<TyInt, TyList(TyInt)>>)
    /\ op.arg[2] = Unions(<<TyString, TyList(TyString)>>)
    /\ op.res = FALSE

\* two tuples of one arity that differ in a component do not intersect
C29_WitnessTuple ==
    /\ op.name = "intersects"
    /\ op.arg[1] = TyTuple(<<TyInt, TyString>>)
    /\ op.arg[2] = TyTuple(<<TyInt, TyInt>>)
    /\ op.res = FALSE

\* an iterable of int and a list of int, in this order, under the standard oracle
C29_WitnessIter ==
    /\ op.name = "intersects"
    /\ op.arg = <<TyIter(TyInt), TyList(TyInt), "standard">>

\* the type has an alternative of the variant
HasAlternative(t, variant) ==
    \E i \in 1..Len(Alternatives(t)) : Variant(Alternatives(t)[i]) = variant

(***************************************************************************)
(* C28.  The type an indexed set binds (expression_bind_type on SetIndex,  *)
(* the target being a binding that has a type): the result is the union,   *)
(* over the alternatives of the current type of the target, of List(type   *)
(* of the assigned value) for each List alternative and of Dict(type of    *)
(* the index, type of the assigned value) for each Dict alternative; every *)
(* other alternative, Any and the names among them, adds nothing and       *)
(* records no error, so a target with no List and no Dict alternative      *)
(* gives Never; the index is validated against int only when the type of   *)
(* the target is exactly a List.                                           *)
(***************************************************************************)
C28_SetIndex ==
    (/\ call.name = "expression_bind_type"
     /\ call.arg[1] = "SetIndex"
     /\ call.arg[2] \in DOMAIN types) =>
        LET target == types[call.arg[2]]
            index == expression_type(oracle, types, call.arg[3], <<1>>)
            e == expression_bind_type(oracle, types, call.arg[4], <<2>>)
            ofList == TyList(e.ty)
            ofDict == TyDict(index.ty, e.ty)
            validated == NewErrors # index.errs \o e.errs
        IN  /\ call.res =
                    IF HasAlternative(target, "List") /\ HasAlternative(target, "Dict")
                    THEN TyUnion(<<ofList, ofDict>>)
                    ELSE IF HasAlternative(target, "List") THEN ofList
                    ELSE IF HasAlternative(target, "Dict") THEN ofDict
                    ELSE TyNever
            /\ Variant(target) # "List" => NewErrors = index.errs \o e.errs
            /\ Variant(target) = "List" =>
                    NewErrors = index.errs \o e.errs
                                \o validate_type(oracle, index.ty, TyInt, <<1>>).errs
            /\ validated => Variant(target) = "List"
            /\ approximoations = call.approximoations \o index.apps \o e.apps

\* a set of x["s"] = 1 on a target that is a list or a dict: both alternatives
\* are refined, and the index is not validated
C28_Witness ==
    /\ call.name = "expression_bind_type"
    /\ call.arg = <<"SetIndex", 1, <<"Literal", "String">>, <<"Expr", IntLit>> >>
    /\ types[1] = TyUnion(<<TyList(TyInt), TyDict(TyString, TyInt)>>)
    /\ call.res = TyUnion(<<TyList(TyInt), TyDict(TyString, TyInt)>>)
    /\ NewErrors = <<>>

\* the same set on a target that is exactly a list: the index is refused
C28_WitnessValidated ==
    /\ call.name = "expression_bind_type"
    /\ call.arg = <<"SetIndex", 1, <<"Literal", "String">>, <<"Expr", IntLit>> >>
    /\ types[1] = TyList(TyInt)
    /\ call.res = TyList(TyInt)
    /\ Len(NewErrors) = 1
    /\ NewErrors[1].err = <<"IncompatibleType", TyString, TyInt>>

\* the same set on a target that is Any, and on one that is an int: Never
C28_WitnessAny ==
    /\ call.name = "expression_bind_type"
    /\ call.arg = <<"SetIndex", 1, <<"Literal", "String">>, <<"Expr", IntLit>> >>
    /\ types[1] = TyAny
    /\ call.res = TyNever
    /\ NewErrors = <<>>

\* a set on a union of an int and a list of strings: the list alone is refined
C28_WitnessUnion ==
    /\ call.name = "expression_bind_type"
    /\ call.arg = <<"SetIndex", 1, <<"Literal", "String">>, <<"Expr", IntLit>> >>
    /\ types[1] = TyUnion(<<TyInt, TyList(TyString)>>)
    /\ call.res = TyList(TyInt)
    /\ NewErrors = <<>>

\* s is the beginning of t
IsPrefix(s, t) == Len(s) <= Len(t) /\ SubSeq(t, 1, Len(s)) = s

(***************************************************************************)
(* C30.  The diagnostics are only appended to, and the environment is only *)
(* read, during a walk: across any sequence of expression_type,            *)
(* expression_bind_type, validate_call and validate_type on one            *)
(* TypingContext, each step leaves the errors and the approximations it    *)
(* found at the beginning of the two lists, unchanged and in their order,  *)
(* and leaves the map from bindings to types as it was.                    *)
(***************************************************************************)
C30_AppendOnly ==
    [][/\ IsPrefix(errors, errors')
       /\ IsPrefix(approximoations, approximoations')
       /\ types' = types
       /\ oracle' = oracle]_vars

\* an indexed set has added its error to a context that held one of an
\* earlier operation
C30_Witness ==
    /\ call.name = "expression_bind_type"
    /\ call.arg[1] = "SetIndex"
    /\ Len(call.errors) = 1
    /\ call.errors[1].err[1] = "UnknownBuiltin"
    /\ Len(errors) = 2
    /\ errors[1] = call.errors[1]
    /\ errors[2].err[1] = "IncompatibleType"

\* an operation has added an approximation to a context that held one
C30_WitnessApproximations ==
    /\ Len(call.approximoations) = 1
    /\ Len(approximoations) = 2
    /\ approximoations[1] = call.approximoations[1]

\* an operation has added two errors at once
C30_WitnessTwo ==
    /\ call.name = "expression_type"
    /\ Len(errors) = Len(call.errors) + 2
    /\ Len(call.errors) = 1

(***************************************************************************)
(* Load resolution.                                                        *)
(***************************************************************************)
\* the load path `dir:file` with no repository part and a relative dir: <<dir, file>>
RelativeLoad(p) ==
    IF /\ Occurrences(p, StrSlashes) = {}
       /\ Occurrences(p, StrColon) # {}
       /\ p[1] # "/"
    THEN split_once(p, StrColon)
    ELSE <<>>

\* the load path `/dir:file` with no repository part and an absolute dir
AbsoluteLoad(p) ==
    IF /\ Occurrences(p, StrSlashes) = {}
       /\ Occurrences(p, StrColon) # {}
       /\ p[1] = "/"
    THEN split_once(p, StrColon)
    ELSE <<>>

\* the load path `//pkg:file`: <<pkg, file>>
RootLoad(p) ==
    IF /\ Len(p) >= 2 /\ SubSeq(p, 1, 2) = StrSlashes
       /\ Occurrences(Tail(Tail(p)), StrColon) # {}
    THEN split_once(Tail(Tail(p)), StrColon)
    ELSE <<>>

\* a load path that names no target: it has no `:`
NoTarget(p) == Occurrences(p, StrColon) = {}

\* the repository named before `//`, without its `@`; empty when none is named
RepositoryOf(p) ==
    LET at == {i \in 1..(Len(p) - 1) : p[i] = "/" /\ p[i + 1] = "/"}
        before == IF at = {} THEN <<>>
                  ELSE SubSeq(p, 1, (CHOOSE i \in at : \A j \in at : i <= j) - 1)
    IN  IF before # <<>> /\ before[1] = "@" THEN Tail(before) ELSE before

\* the error of a repository name that cannot be resolved, <<>> when there is none
RepositoryError(p, b) ==
    IF RepositoryOf(p) = <<>> THEN <<>>
    ELSE IF b = <<>> THEN <<"MissingBuildSystem", p>>
    ELSE IF /\ b[1].root_repository_name # <<RepositoryOf(p)>>
            /\ \A r \in b[1].repositories : r[1] # RepositoryOf(p)
         THEN <<"UnknownRepository", p, RepositoryOf(p)>>
         ELSE <<>>

\* the folder named under a base by a directory text that is empty, a name, or
\* `./` and a name
Under(base, dir) ==
    IF dir = <<>> THEN base
    ELSE IF Len(dir) > 2 /\ SubSeq(dir, 1, 2) = <<".", "/">>
         THEN base \o <<SubSeq(dir, 3, Len(dir))>>
         ELSE base \o <<dir>>

\* the result for a file name in a folder: the file when it exists, else the first
\* build file name that exists in the folder, else TargetNotFound; the empty file
\* name names the folder itself, which is there when it is a directory
Found(p, folder, file, b, f) ==
    LET names == IF b = <<>> THEN <<>> ELSE b[1].build_file_names
        hits  == {i \in 1..Len(names) : folder \o <<names[i]>> \in f.paths}
        named == IF file = <<>> THEN folder ELSE folder \o <<file>>
    IN  IF named \in f.paths /\ (file = <<>> => named \in f.directories)
        THEN <<"Ok", <<"File", named>> >>
        ELSE IF hits # {}
             THEN <<"Ok", <<"File", folder \o
                      <<names[CHOOSE i \in hits : \A j \in hits : i <= j]>> >> >>
             ELSE <<"Err", <<"TargetNotFound", p>> >>

\* the root of the remote repository that holds the current file, else the
\* workspace root
RootFor(c, w, b) ==
    IF b # <<>> /\ c[1] = "File"
       /\ \E r \in b[1].repositories : IsPathPrefix(r[2], c[2])
    THEN <<(CHOOSE r \in b[1].repositories : IsPathPrefix(r[2], c[2]))[2]>>
    ELSE w

\* the load path `repo//pkg:file` or `@repo//pkg:file`: <<pkg, file>>
RepositoryLoad(p) ==
    IF RepositoryOf(p) # <<>> /\ ~NoTarget(p)
    THEN split_once(split_once(p, StrSlashes)[1][2], StrColon)
    ELSE <<>>

\* the root of a named repository: the workspace root for the name of the root
\* repository, else the root of the remote repository of that name
RootOfRepository(repository, w, b) ==
    IF b[1].root_repository_name = <<repository>> THEN w
    ELSE <<(CHOOSE r \in b[1].repositories : r[1] = repository)[2]>>

\* what the claim says of a relative path `dir:file`
LoadRelative(p, c, b, f, r) ==
    /\ RelativeLoad(p) # <<>> /\ c[1] # "File"
         => r = <<"Err", <<"WrongScheme", StrFileScheme, c>> >>
    /\ RelativeLoad(p) # <<>> /\ c[1] = "File" /\ c[2] # <<>>
         => r = Found(p, Under(SubSeq(c[2], 1, Len(c[2]) - 1), RelativeLoad(p)[1][1]),
                      RelativeLoad(p)[1][2], b, f)

\* C27 (as stated): resolve_load resolves a relative path `dir:file` against the
\* directory of the current file and fails with WrongScheme when the current file
\* is not a file URL; it resolves a `//pkg:file` path against the workspace root and
\* fails with MissingWorkspaceRoot when no root is given; a path with no `:` target
\* fails with CannotParsePath; the named file is returned when it exists, otherwise
\* the first build file name that exists in the folder, otherwise TargetNotFound.
C27_ResolveLoadWorkspaceRoot ==
    op.name = "resolve_load" =>
        /\ LoadRelative(xs[1], xs[2], xs[4], xs[5], op.res)
        /\ NoTarget(xs[1]) => op.res = <<"Err", <<"CannotParsePath", xs[1]>> >>
        /\ RootLoad(xs[1]) # <<>> /\ xs[3] = <<>>
             => op.res = <<"Err", <<"MissingWorkspaceRoot", xs[1]>> >>
        /\ RootLoad(xs[1]) # <<>> /\ xs[3] # <<>>
             => op.res = Found(xs[1], Under(xs[3][1], RootLoad(xs[1])[1][1]),
                               RootLoad(xs[1])[1][2], xs[4], xs[5])

\* C27 (amended): as above, with three differences.  A `//pkg:file` path resolves
\* against the root of the remote repository that holds the current file when the
\* build system knows one, and against the workspace root otherwise; it fails with
\* MissingWorkspaceRoot when neither root is there.  A path that names a
\* repository before `//` fails with MissingBuildSystem when the context has no
\* build system and with UnknownRepository when the build system does not know the
\* repository, whether it has a `:` target or not; otherwise it resolves against
\* the workspace root when the name is that of the root repository and against the
\* root of the named remote repository when not.  Every other path with no `:`
\* target fails with CannotParsePath.  A path `dir:file` asked from a current file
\* that has no directory fails with MissingCurrentFilePath, and one with an
\* absolute dir resolves in that directory, not under the current file's.
C27_ResolveLoad ==
    op.name = "resolve_load" =>
        /\ LoadRelative(xs[1], xs[2], xs[4], xs[5], op.res)
        /\ RelativeLoad(xs[1]) # <<>> \/ AbsoluteLoad(xs[1]) # <<>>
             => /\ xs[2] = <<"File", <<>> >>
                     => op.res = <<"Err", <<"MissingCurrentFilePath", xs[1]>> >>
                /\ xs[2][1] # "File"
                     => op.res = <<"Err", <<"WrongScheme", StrFileScheme, xs[2]>> >>
        /\ AbsoluteLoad(xs[1]) # <<>> /\ xs[2][1] = "File" /\ xs[2][2] # <<>>
             => op.res = Found(xs[1], Components(AbsoluteLoad(xs[1])[1][1]),
                               AbsoluteLoad(xs[1])[1][2], xs[4], xs[5])
        /\ RepositoryError(xs[1], xs[4]) # <<>>
             => op.res = <<"Err", RepositoryError(xs[1], xs[4])>>
        /\ NoTarget(xs[1]) /\ RepositoryError(xs[1], xs[4]) = <<>>
             => op.res = <<"Err", <<"CannotParsePath", xs[1]>> >>
        /\ RepositoryLoad(xs[1]) # <<>> /\ RepositoryError(xs[1], xs[4]) = <<>>
             => LET root == RootOfRepository(RepositoryOf(xs[1]), xs[3], xs[4])
                IN  IF root = <<>>
                    THEN op.res = <<"Err", <<"MissingWorkspaceRoot", xs[1]>> >>
                    ELSE op.res = Found(xs[1], Under(root[1], RepositoryLoad(xs[1])[1][1]),
                                        RepositoryLoad(xs[1])[1][2], xs[4], xs[5])
        /\ RootLoad(xs[1]) # <<>> /\ RootFor(xs[2], xs[3], xs[4]) = <<>>
             => op.res = <<"Err", <<"MissingWorkspaceRoot", xs[1]>> >>
        /\ RootLoad(xs[1]) # <<>> /\ RootFor(xs[2], xs[3], xs[4]) # <<>>
             => op.res = Found(xs[1],
                               Under(RootFor(xs[2], xs[3], xs[4])[1], RootLoad(xs[1])[1][1]),
                               RootLoad(xs[1])[1][2], xs[4], xs[5])

\* `//:root.star` was asked from a file of the remote repository with no workspace
\* root, and the file of the remote repository was returned
C27_Witness ==
    /\ op.name = "resolve_load"
    /\ xs[1] = StrSlashes \o StrColon \o NameRoot
    /\ xs[2] = LspUrlFile(<<NameE, NameFrom>>)
    /\ xs[3] = <<>>
    /\ op.res = ResolveOk(LspUrlFile(<<NameE, NameRoot>>))

\* `//both:t` names no file, and the first of the two build files was returned
C27_WitnessBuildFile ==
    /\ op.name = "resolve_load"
    /\ xs[1] = StrSlashes \o NameBoth \o StrColon \o NameT
    /\ Len(BuildFileNames(xs[4])) = 2
    /\ op.res = ResolveOk(LspUrlFile(<<NameR, NameBoth, NameBuild>>))

\* `//pkg:t` found the second build file name, the first not being there
C27_WitnessSecondBuildFile ==
    /\ op.name = "resolve_load"
    /\ xs[1] = StrSlashes \o NamePkg \o StrColon \o NameT
    /\ op.res = ResolveOk(LspUrlFile(<<NameR, NamePkg, NameBuildBazel>>))

\* a relative path was resolved against the directory of the current file
C27_WitnessRelative ==
    /\ op.name = "resolve_load"
    /\ xs[1] = NameSubpath \o StrColon \o NameRelative
    /\ op.res = ResolveOk(LspUrlFile(<<NameR, NameSubpath, NameRelative>>))

\* the four errors of the claim
C27_WitnessErrors ==
    /\ op.name = "resolve_load"
    /\ \/ RelativeLoad(xs[1]) # <<>> /\ op.res[1] = "Err" /\ op.res[2][1] = "WrongScheme"
       \/ RootLoad(xs[1]) # <<>> /\ op.res[1] = "Err"
            /\ op.res[2][1] = "MissingWorkspaceRoot"

C27_WitnessTargetNotFound ==
    /\ op.name = "resolve_load"
    /\ xs[4] # <<>>
    /\ op.res = ResolveErr(<<"TargetNotFound", xs[1]>>)

C27_WitnessCannotParse ==
    /\ op.name = "resolve_load"
    /\ xs[1] = StrSlashes \o NameBaz
    /\ xs[3] # <<>>
    /\ op.res = ResolveErr(<<"CannotParsePath", xs[1]>>)

\* `e//pkg` has no target: without a build system it fails on the repository,
\* and with a build system that knows e it cannot be parsed
C27_WitnessNoTargetRepository ==
    /\ op.name = "resolve_load"
    /\ xs[1] = NameE \o StrSlashes \o NamePkg
    /\ xs[4] = <<>>
    /\ op.res = ResolveErr(<<"MissingBuildSystem", xs[1]>>)

C27_WitnessNoTargetKnownRepository ==
    /\ op.name = "resolve_load"
    /\ xs[1] = NameE \o StrSlashes \o NamePkg
    /\ xs[4] # <<>>
    /\ op.res = ResolveErr(<<"CannotParsePath", xs[1]>>)

C27_WitnessUnknownRepository ==
    /\ op.name = "resolve_load"
    /\ xs[1] = NameE \o StrSlashes \o NamePkg
    /\ op.res = ResolveErr(<<"UnknownRepository", xs[1], NameE>>)

\* `@e//pkg:root.star` was found in the remote repository e
C27_WitnessRemoteRepository ==
    /\ op.name = "resolve_load"
    /\ xs[1] = <<StrAt>> \o NameE \o StrSlashes \o NamePkg \o StrColon \o NameRoot
    /\ op.res = ResolveOk(LspUrlFile(<<NameE, NamePkg, NameRoot>>))

\* `w//baz:root.star` names the root repository and no workspace root was given
C27_WitnessRootRepository ==
    /\ op.name = "resolve_load"
    /\ xs[1] = NameW \o StrSlashes \o NameBaz \o StrColon \o NameRoot
    /\ xs[4] # <<>>
    /\ op.res = ResolveErr(<<"MissingWorkspaceRoot", xs[1]>>)

\* `/e/pkg:root.star` asked from a file of the workspace was found in /e/pkg
C27_WitnessAbsoluteDir ==
    /\ op.name = "resolve_load"
    /\ xs[1] = <<"/">> \o NameE \o <<"/">> \o NamePkg \o StrColon \o NameRoot
    /\ xs[2] = LspUrlFile(<<NameR, NameFrom>>)
    /\ op.res = ResolveOk(LspUrlFile(<<NameE, NamePkg, NameRoot>>))

\* a relative path asked from the root directory as the current file
C27_WitnessNoDirectory ==
    /\ op.name = "resolve_load"
    /\ xs[1] = StrColon \o NameRelative
    /\ op.res = ResolveErr(<<"MissingCurrentFilePath", xs[1]>>)

\* an empty file name on a folder that is a regular file: `from.star:` from
\* /r/from.star names /r/from.star/, which is not there
C27_WitnessEmptyNameOnFile ==
    /\ op.name = "resolve_load"
    /\ xs[1] = NameFrom \o StrColon
    /\ xs[2] = LspUrlFile(<<NameR, NameFrom>>)
    /\ <<NameR, NameFrom>> \in xs[5].paths
    /\ op.res = ResolveErr(<<"TargetNotFound", xs[1]>>)

\* an empty file name on a folder that is a directory: `subpath:` returns the
\* directory /r/subpath
C27_WitnessEmptyNameOnDirectory ==
    /\ op.name = "resolve_load"
    /\ xs[1] = NameSubpath \o StrColon
    /\ op.res = ResolveOk(LspUrlFile(<<NameR, NameSubpath>>))

====
